---- MODULE Spec2Model ----
(***************************************************************************)
(* A model of the task-dispatch core of argus: the SQLite connection pool  *)
(* (core/database.py), the Redis pool and the Redis-backed message queue   *)
(* (core/redis_pool.py, core/mq.py, core/coordinator.py, core/worker.py),  *)
(* the task API (apps/proxy_api/main.py), the services and the shutdown of *)
(* ApplicationManager (main.py), the error-recovery toolkit                *)
(* (core/error_recovery.py), the error rate limiters                       *)
(* (core/error_rate_limiter.py), the policy engine (core/policy.py) and    *)
(* the error context (core/error_context.py).                              *)
(***************************************************************************)
EXTENDS Integers, Sequences, FiniteSets, TLC

(***************************************************************************)
(* Bounds of the model.                                                    *)
(***************************************************************************)
\* DatabaseConnectionPool.max_connections of the pool under analysis
MaxConnections == 2
\* connections sqlite3.connect is asked for during one run
MaxCreated == 4
\* concurrent callers of the pool
NumCallers == 2
\* idle connections that are stale at the same time
MaxStale == 1

\* Worker instances pulling from the task queue
NumWorkers == 1
\* items pushed onto the channel during one run
MaxPushed == 2
\* calls of enqueue, dequeue and process_task during one run
MaxCalls == 4

\* CircuitBreaker: largest failure_threshold and recovery_timeout (in clock
\* ticks) a breaker is constructed with, last clock value, calls per run
MaxThreshold == 3
MaxTimeout == 2
MaxTime == 4
MaxBreakerCalls == 6

\* retry_with_backoff: largest max_attempts a wrapper is built with, and how
\* far below 1 max_attempts is drawn
MaxAttempts == 3
MaxNonPositive == 2

\* ExponentialBackoffStrategy: largest base_delay, multiplier and max_delay a
\* strategy is built with, largest attempt get_delay is asked for, and the
\* largest finite value of the floats of the model (sys.float_info.max)
MaxBaseDelay == 2
MaxMultiplier == 2
MaxDelayCap == 10
MaxDelayAttempt == 8
FloatMax == 64

\* ErrorRateLimiter: largest ceilings a limiter is built with, is_allowed
\* calls per run, clock advances per run, last clock value (in ticks)
MaxPerSecond == 2
MaxPerMinute == 3
MaxLimiterCalls == 3
MaxAdvances == 3
MaxLimiterTime == 124

\* PolicyEngine: calls of decide during one run
MaxDecisions == 2

\* close_all calls on one pool
MaxCloses == 2

\* failing brpop calls of a worker in a row that are followed
MaxFailedPops == 2

\* error_context scopes one thread is in at the same time
MaxDepth == 2

\* AdaptiveErrorRateLimiter: timestamps in the window at the same time
MaxAdaptiveErrors == 12

\* retry_with_backoff default max_attempts
DefaultMaxAttempts == 3

\* PolicyEngine: the defaults of decide and of the hardcoded default policy;
\* rates are in hundredths
DefaultTimeoutS == 15
DefaultMaxRetries == 2
DefaultHeadedThreshold == 25
DefaultPingThreshold == 120

\* ErrorRateLimiter.__init__ defaults, and the 60 of current_time // 60
DefaultMaxErrorsPerSecond == 10
DefaultMaxErrorsPerMinute == 100
DefaultWindowSize == 60
SecondsPerMinute == 60

\* AdaptiveErrorRateLimiter: the defaults of adjustment_threshold (0.8, in
\* tenths) and adjustment_factor (1.5, in halves), and the number of
\* timestamps below which _adjust_limits does nothing
DefaultAdjustmentThreshold == 8
DefaultAdjustmentFactor == 3
AdjustMinSamples == 10

\* ExponentialBackoffStrategy.__init__ defaults
DefaultBaseDelay == 1
DefaultMaxDelay == 60
DefaultMultiplier == 2

\* CircuitBreaker.__init__ defaults
DefaultFailureThreshold == 5
DefaultRecoveryTimeout == 60

Callers == 1..NumCallers
ConnIds == 1..MaxCreated
Workers == 1..NumWorkers

VARIABLES
    \* ---- DatabaseConnectionPool (core/database.py) ----
    connections,                \* self.connections: the idle list
    connection_count,           \* self.connection_count
    total_connections_created,  \* self.total_connections_created
    connState,                  \* each sqlite3 connection: unborn, open, broken, closed
    leases,                     \* per caller, the connections it was handed and has not returned
    dbResult,                   \* outcome of the last pool call
    dbClosed,                   \* close_all has been called (the pool keeps no such flag)
    \* ---- Redis backend and RedisConnectionPool (core/redis_pool.py) ----
    channel,                    \* the Redis list "task_queue", leftmost element first
    redisUp,                    \* whether the Redis server answers
    redis_shutdown,             \* RedisConnectionPool._shutdown
    redisResult,                \* outcome of the last call of the Redis pool
    \* ---- MessageQueue (core/mq.py) ----
    enqueue_count,              \* self.enqueue_count
    dequeue_count,              \* self.dequeue_count
    mqResult,                   \* return value of the last enqueue / dequeue
    \* ---- Coordinator (core/coordinator.py) ----
    total_tasks_processed,      \* self.total_tasks_processed
    total_tasks_enqueued,       \* self.total_tasks_enqueued
    coordResult,                \* result of the last process_task
    coordArg,                   \* the task_spec the last process_task was given
    \* ---- Worker (core/worker.py) ----
    workerPc,                   \* each worker's position in run()
    workerTask,                 \* the task a worker decoded and is processing
    workerLast,                 \* what a worker's last process_task did
    shutdown_event,             \* each worker's self.shutdown_event
    taskStatus,                 \* tasks.status in the store, per task id
    \* ---- history of the channel ----
    pushed,                     \* the items pushed, in push order
    popped,                     \* the items returned by pops, in pop order
    interleaved,                \* a push happened after some pop
    \* ---- CircuitBreaker (core/error_recovery.py) ----
    failure_threshold,          \* self.failure_threshold
    recovery_timeout,           \* self.recovery_timeout, in clock ticks
    state,                      \* self.state: CLOSED, OPEN, HALF_OPEN
    failure_count,              \* self.failure_count
    last_failure_time,          \* self.last_failure_time; 0 stands for None
    now,                        \* time.time(), in clock ticks, starting at 1
    breakerCalls,               \* calls of CircuitBreaker.call so far
    consecutive,                \* expected failures of func since its last success
    lastCall,                   \* what the last call did: func's behaviour, the call's outcome
    calledIn,                   \* self.state when the last call began; "none" before any call
    \* ---- retry_with_backoff (core/error_recovery.py) ----
    max_attempts,               \* the decorator's max_attempts
    has_on_retry,               \* whether an on_retry callback was given
    attempt,                    \* the loop variable of wrapper
    retryPc,                    \* wrapper's position: call, sleep, returned, raised
    invocations,                \* times func was invoked by this wrapper call
    on_retry_calls,             \* times on_retry was called
    last_error,                 \* last_error: the class of the last exception of func
    retryRaised,                \* class of the exception the wrapper raised, if any
    \* ---- ExponentialBackoffStrategy (core/error_recovery.py) ----
    base_delay,                 \* self.base_delay
    max_delay,                  \* self.max_delay
    multiplier,                 \* self.multiplier
    jitter,                     \* self.jitter
    delayAttempt,               \* the attempt get_delay was last asked for; 0 before any call
    delay,                      \* what that call returned, in quarters of a second
    delayRaised,                \* class of the exception that call raised, "None" if it returned
    \* ---- ErrorRateLimiter (core/error_rate_limiter.py) ----
    max_errors_per_second,      \* self.max_errors_per_second
    max_errors_per_minute,      \* self.max_errors_per_minute
    window_size_seconds,        \* self.window_size_seconds
    error_timestamps,           \* self.error_timestamps, oldest first, in ticks
    error_counts_per_second,    \* self.error_counts_per_second; 0 stands for no entry
    error_counts_per_minute,    \* self.error_counts_per_minute; 0 stands for no entry
    limiterNow,                 \* time.time(), in ticks
    advances,                   \* times the clock was advanced
    limiterLog,                 \* the is_allowed calls so far: time, error_type, result
    \* ---- ApplicationManager (main.py) ----
    appShutdown,                \* self.shutdown_event (a threading.Event) is set
    appPc,                      \* the process: running, joining (in shutdown), exited
    mqPc,                       \* the mq_processor thread: loop, dequeue, stopped, killed
    \* ---- DatabaseConnectionPool.connection (core/database.py) ----
    scopedPc,                   \* each caller's position: outside, body, finally
    scopedBodyRaised,           \* whether the body of the caller's last block raised
    scopedOutcome,              \* how the caller's last block ended
    \* ---- PolicyEngine (core/policy.py) ----
    policies,                   \* self.policies: the routing threshold and the browser block
    decision_count,             \* self.decision_count
    probes,                     \* the env_probes of the last decide
    decision,                   \* what the last decide returned
    prevProbes,                 \* the env_probes of the decide before it
    prevDecision,               \* what that decide returned
    \* ---- AdaptiveErrorRateLimiter (core/error_rate_limiter.py); its other
    \* ---- fields are those of ErrorRateLimiter above
    initial_max_errors_per_second,  \* self.initial_max_errors_per_second
    initial_max_errors_per_minute,  \* self.initial_max_errors_per_minute
    adjustment_threshold,       \* self.adjustment_threshold, in tenths
    adjustment_factor,          \* self.adjustment_factor, in halves
    lastAdjust,                 \* what the last is_allowed did to the ceilings, and the ceilings before it
    shadow,                     \* an ErrorRateLimiter with the constructor's ceilings, given the same calls
    \* ---- history of the two pools' shutdowns
    close_calls,                \* the close_all calls made so far on each pool
    \* ---- the error context (core/error_context.py)
    default_context,            \* the dict given as default= to the ContextVar
    context_binding,            \* per thread: what _error_context is bound to
    context_frames,             \* per thread: the error_context scopes it is in
    last_exit,                  \* the scope that was left last
    has_written,                \* per thread: it has set or updated its context
    \* ---- threads inside CircuitBreaker.call
    callPc,                     \* each thread's position in call
    enteredIn,                  \* the state each thread found at line 200
    \* ---- history of the Worker's loop
    failedPops,                 \* per worker: failing brpop calls since its last pause or item
    \* ---- the function a CircuitBreaker wraps
    healed                      \* the breaker's state when func stopped failing for good, or "no"

poolVars == <<connections, connection_count, total_connections_created,
              connState, leases, dbResult, dbClosed>>

(***************************************************************************)
(* DatabaseConnectionPool                                                  *)
(***************************************************************************)
\* conn.execute("SELECT 1") succeeds only on an open, healthy connection;
\* on a closed or broken one it raises sqlite3.Error.
SelectOne(c) == connState[c] = "open"

\* the connections handed out and not yet returned
InUse == UNION {leases[p] : p \in Callers}
in_use_count == Cardinality(InUse)
idle_count == Len(connections)

PoolInit ==
    /\ connections = <<>>
    /\ connection_count = 0
    /\ total_connections_created = 0
    /\ connState = [c \in ConnIds |-> "unborn"]
    /\ leases = [p \in Callers |-> {}]
    /\ dbResult = "none"
    /\ dbClosed = FALSE

\* the guard of line 70 with the bound check dropped
MayCreateUnbounded(count) == TRUE

\* line 70: a new connection may be created only below max_connections
MayCreate(count) == count < MaxConnections

\* a failed sqlite3.connect that keeps the slot it had reserved
CountAfterFailedConnectLeaked(count) == count + 1

\* lines 71 and 80: connection_count += 1 before sqlite3.connect, -= 1 when
\* it raises sqlite3.Error
CountAfterFailedConnect(count) == count

\* lines 70-88: create a new connection, or fail when the pool is exhausted
\* or sqlite3.connect raises; `count` is connection_count after lines 56-68.
CreateOrFail(p, count, idle, states, connectOk) ==
    IF MayCreate(count)
    THEN LET c == total_connections_created + 1 IN
         /\ total_connections_created' = total_connections_created + 1
         /\ connections' = idle
         /\ IF connectOk
            THEN /\ connection_count' = count + 1
                 /\ connState' = [states EXCEPT ![c] = "open"]
                 /\ leases' = [leases EXCEPT ![p] = @ \cup {c}]
                 /\ dbResult' = "ok"
            ELSE /\ connection_count' = CountAfterFailedConnect(count)
                 /\ connState' = states
                 /\ leases' = leases
                 /\ dbResult' = "DatabaseError"
    ELSE /\ connections' = idle
         /\ connection_count' = count
         /\ connState' = states
         /\ UNCHANGED <<total_connections_created, leases>>
         /\ dbResult' = "DatabaseError"

\* a read of the last idle connection that leaves it in the list
IdleAfterPeek(idle) == idle

\* line 58, self.connections.pop(): the idle list without its last element
IdleAfterPop(idle) == SubSeq(idle, 1, Len(idle) - 1)

\* get_connection, under self.lock
GetConnection(p, connectOk) ==
    /\ total_connections_created < MaxCreated
    /\ UNCHANGED dbClosed
    /\ IF connections /= <<>>
       THEN LET c == connections[Len(connections)]
                rest == IdleAfterPop(connections) IN
            IF SelectOne(c)
            THEN /\ connections' = rest
                 /\ leases' = [leases EXCEPT ![p] = @ \cup {c}]
                 /\ dbResult' = "ok"
                 /\ UNCHANGED <<connection_count, total_connections_created, connState>>
            ELSE CreateOrFail(p, connection_count - 1, rest, connState, connectOk)
       ELSE CreateOrFail(p, connection_count, connections, connState, connectOk)

\* return_connection, under self.lock; the caller passes a connection it holds
ReturnConnection(p, c) ==
    /\ c \in leases[p]
    /\ leases' = [leases EXCEPT ![p] = @ \ {c}]
    /\ IF Len(connections) < MaxConnections
       THEN IF SelectOne(c)
            THEN /\ connections' = Append(connections, c)
                 /\ UNCHANGED <<connection_count, connState>>
            ELSE /\ connState' = [connState EXCEPT ![c] = "closed"]
                 /\ connection_count' = connection_count - 1
                 /\ UNCHANGED connections
       ELSE /\ connState' = [connState EXCEPT ![c] = "closed"]
            /\ connection_count' = connection_count - 1
            /\ UNCHANGED connections
    /\ dbResult' = "returned"
    /\ UNCHANGED <<total_connections_created, dbClosed>>

\* a shutdown that closes the idle connections and keeps them in the list
IdleKeptAfterCloseAll(idle) == idle

\* line 163, self.connections.clear()
IdleAfterCloseAll(idle) == <<>>

\* close_all, under self.lock
CloseAll ==
    /\ connState' = [c \in ConnIds |->
                        IF \E i \in 1..Len(connections) : connections[i] = c
                        THEN "closed" ELSE connState[c]]
    /\ connections' = IdleAfterCloseAll(connections)
    /\ connection_count' = 0
    /\ dbResult' = "closed"
    /\ dbClosed' = TRUE
    /\ UNCHANGED <<total_connections_created, leases>>

\* the environment: an open connection stops answering (sqlite3.Error on use)
BreakConnection(c) ==
    /\ connState[c] = "open"
    /\ connState' = [connState EXCEPT ![c] = "broken"]
    /\ UNCHANGED <<connections, connection_count, total_connections_created,
                   leases, dbResult, dbClosed>>

\* the environment: a connection goes stale while it sits in the idle list
StaleConnection(c) ==
    /\ \E i \in 1..Len(connections) : connections[i] = c
    /\ Cardinality({d \in ConnIds : connState[d] = "broken"}) < MaxStale
    /\ BreakConnection(c)

(***************************************************************************)
(* DatabaseConnectionPool.connection: the 'with db_pool.connection()' block *)
(***************************************************************************)
scopedVars == <<scopedPc, scopedBodyRaised, scopedOutcome>>

\* get_pool_stats, "active_connections"
active_connections == connection_count - Len(connections)

\* a block whose connection is given back only when the body returned
ReleasesOnlyOnSuccess(bodyRaised) == ~bodyRaised

\* lines 144-150: the finally clause runs on every exit path of the block
\* and returns the connection
ReleasesAfter(bodyRaised) == TRUE

\* lines 131-133: the block is entered; get_connection hands out a
\* connection, or raises DatabaseError and the body never runs
ScopedEnter(p, connectOk) ==
    /\ scopedPc[p] = "outside"
    /\ GetConnection(p, connectOk)
    /\ scopedBodyRaised' = [scopedBodyRaised EXCEPT ![p] = FALSE]
    /\ IF dbResult' = "ok"
       THEN /\ scopedPc' = [scopedPc EXCEPT ![p] = "body"]
            /\ scopedOutcome' = [scopedOutcome EXCEPT ![p] = "none"]
       ELSE /\ scopedPc' = [scopedPc EXCEPT ![p] = "outside"]
            /\ scopedOutcome' = [scopedOutcome EXCEPT ![p] = "DatabaseError"]

\* lines 134-143: the body runs to its end or raises; on an exception the
\* handler rolls back and re-raises. The body may leave its connection
\* unusable (it closed it, or the connection broke under it).
ScopedBody(p, raises, spoils) ==
    /\ scopedPc[p] = "body"
    /\ scopedPc' = [scopedPc EXCEPT ![p] = "finally"]
    /\ scopedBodyRaised' = [scopedBodyRaised EXCEPT ![p] = raises]
    /\ connState' = [c \in ConnIds |->
                        IF spoils /\ c \in leases[p] THEN "broken" ELSE connState[c]]
    /\ UNCHANGED scopedOutcome
    /\ UNCHANGED <<connections, connection_count, total_connections_created,
                   leases, dbResult, dbClosed>>

\* lines 144-150: the finally clause, then the block ends: the body's
\* exception goes on to the caller
ScopedExit(p) ==
    /\ scopedPc[p] = "finally"
    /\ scopedPc' = [scopedPc EXCEPT ![p] = "outside"]
    /\ scopedOutcome' = [scopedOutcome EXCEPT ![p] =
                            IF scopedBodyRaised[p] THEN "BodyError" ELSE "returned"]
    /\ UNCHANGED scopedBodyRaised
    /\ IF ReleasesAfter(scopedBodyRaised[p])
       THEN \E c \in leases[p] : ReturnConnection(p, c)
       ELSE UNCHANGED poolVars

\* no caller is in a block
ScopedInit ==
    /\ scopedPc = [p \in Callers |-> "outside"]
    /\ scopedBodyRaised = [p \in Callers |-> FALSE]
    /\ scopedOutcome = [p \in Callers |-> "none"]

(***************************************************************************)
(* The task queue: Redis list, MessageQueue, Coordinator, Worker           *)
(***************************************************************************)
queueVars == <<channel, redisUp, redis_shutdown, redisResult, enqueue_count, dequeue_count,
               mqResult, total_tasks_processed, total_tasks_enqueued, coordResult, coordArg,
               workerPc, workerTask, workerLast, shutdown_event, taskStatus,
               pushed, popped, interleaved>>

\* the task specifications producers submit
Tasks == { [id |-> 1, browser_task |-> FALSE, url |-> ""],
           [id |-> 2, browser_task |-> TRUE, url |-> "http://a"] }
TaskIds == {t.id : t \in Tasks}
NoTask == [id |-> 0, browser_task |-> FALSE, url |-> ""]

\* json.dumps of a task: the flat key-value document on the wire
Dumps(m) == <<"id", m.id, "browser_task", m.browser_task, "url", m.url>>
\* json.loads of a wire document
Loads(w) == [id |-> w[2], browser_task |-> w[4], url |-> w[6]]

\* RPUSH: the element goes to the right end of the list
RPush(list, e) == Append(list, e)

\* LPUSH: the element goes to the left end of the list
LPush(list, e) == <<e>> \o list

\* BRPOP returns the rightmost element ...
RightMost(list) == list[Len(list)]

\* a read of the rightmost element that leaves the list as it is
ListAfterPeek(list) == list

\* ... and removes it from the list
ListAfterPop(list) == SubSeq(list, 1, Len(list) - 1)

\* the calls made so far on MessageQueue and Coordinator
QueueCalls == enqueue_count + dequeue_count + total_tasks_processed

\* redis_pool.py lines 54-90: what get_connection returns or raises
RedisAcquire ==
    IF redis_shutdown THEN "REDIS_POOL_SHUTDOWN"
    ELSE IF redisUp THEN "ok" ELSE "REDIS_CONNECTION_ERROR"

\* RedisConnectionPool.get_connection: refused after close_all, and the
\* ping fails when the server does not answer
RedisGetConnectionOk == RedisAcquire = "ok"

\* the channel and its history after a push of message m
PushItem(m) ==
    /\ channel' = LPush(channel, [uid |-> Len(pushed) + 1, wire |-> Dumps(m)])
    /\ pushed' = Append(pushed, [uid |-> Len(pushed) + 1, item |-> m])
    /\ interleaved' = (interleaved \/ popped /= <<>>)

\* the channel and its history after a pop by a consumer of kind `by`
\* (a Worker's run loop, or a caller of MessageQueue.dequeue)
PopItem(by) ==
    /\ channel' = ListAfterPop(channel)
    /\ popped' = Append(popped, [uid |-> RightMost(channel).uid,
                                 item |-> Loads(RightMost(channel).wire),
                                 by |-> by])
    /\ UNCHANGED <<pushed, interleaved>>

\* what can go wrong inside the 'with redis_pool.connection()' block of
\* enqueue once the pool has handed out a client: nothing, json.dumps
\* raises TypeError, or lpush raises one of the errors of redis
EnqueueFaults ==
    {"none", "TypeError", "redis.ConnectionError", "redis.TimeoutError", "redis.RedisError"}

\* what brpop can raise in dequeue once the pool has handed out a client
DequeueFaults == {"none", "redis.ConnectionError", "redis.TimeoutError", "redis.RedisError"}

\* the exception raised inside the try block of enqueue / dequeue, "none"
\* when the block runs to its end: redis_pool.connection() raises the
\* RedisError of get_connection, then the body may fail
MqRaises(fault) ==
    IF RedisGetConnectionOk THEN fault ELSE RedisAcquire

\* the except clause of mq.py that catches `raised`; "uncaught" for none
MqHandler(raised) ==
    CASE raised = "redis.ConnectionError" -> "except redis.ConnectionError"
      [] raised = "redis.TimeoutError" -> "except redis.TimeoutError"
      [] raised = "redis.RedisError" -> "except redis.RedisError"
      [] raised \in {"TypeError", "REDIS_POOL_SHUTDOWN", "REDIS_CONNECTION_ERROR"} ->
            "except Exception"
      [] OTHER -> "uncaught"

\* an enqueue that reports success whatever happened
EnqueueReturnsTrue(raised) == "True"

\* enqueue, lines 73, 84, 95, 106 and 117: the value returned
EnqueueReturns(raised) == IF raised = "none" THEN "True" ELSE "False"

\* dequeue, lines 155, 166, 177, 188 and 199: return {}
DequeueNothing == "{}"

\* MessageQueue.enqueue
Enqueue(m, fault) ==
    /\ QueueCalls < MaxCalls
    /\ enqueue_count' = enqueue_count + 1
    /\ LET raised == MqRaises(fault) IN
       /\ IF raised = "none"
          THEN /\ Len(pushed) < MaxPushed
               /\ PushItem(m)
          ELSE UNCHANGED <<channel, pushed, interleaved>>
       /\ mqResult' = [op |-> "enqueue", ret |-> EnqueueReturns(raised), item |-> m,
                       raised |-> IF raised = "none" \/ MqHandler(raised) /= "uncaught"
                                  THEN "none" ELSE raised]
    /\ UNCHANGED <<redisUp, redis_shutdown, redisResult, dequeue_count, total_tasks_processed,
                   total_tasks_enqueued, coordResult, coordArg, workerPc, workerTask, workerLast,
                   shutdown_event, taskStatus, popped>>

\* MessageQueue.dequeue(timeout): the item brpop returned, decoded, or {}
\* when none arrived within the timeout or the backend failed
Dequeue(fault) ==
    /\ QueueCalls < MaxCalls
    /\ dequeue_count' = dequeue_count + 1
    /\ LET raised == MqRaises(fault) IN
       IF raised = "none" /\ channel /= <<>>
       THEN /\ PopItem("dequeue")
            /\ mqResult' = [op |-> "dequeue", ret |-> "item",
                            item |-> Loads(RightMost(channel).wire), raised |-> "none"]
       ELSE /\ mqResult' = [op |-> "dequeue", ret |-> DequeueNothing, item |-> NoTask,
                            raised |-> IF raised = "none" \/ MqHandler(raised) /= "uncaught"
                                       THEN "none" ELSE raised]
            /\ UNCHANGED <<channel, pushed, popped, interleaved>>
    /\ UNCHANGED <<redisUp, redis_shutdown, redisResult, enqueue_count, total_tasks_processed,
                   total_tasks_enqueued, coordResult, coordArg, workerPc, workerTask, workerLast,
                   shutdown_event, taskStatus>>

\* what can go wrong in line 64 while the server answers: nothing,
\* json.dumps raises TypeError, lpush raises redis.TimeoutError or another
\* redis.RedisError
PushFaults == {"none", "TypeError", "redis.TimeoutError", "redis.RedisError"}

\* the exception line 64 raises, "none" when the push went through:
\* json.dumps is evaluated before lpush is called
PushRaises(fault) ==
    IF fault = "TypeError" THEN fault
    ELSE IF ~redisUp THEN "redis.ConnectionError"
    ELSE fault

\* a result that reports every call as enqueued
StatusOfAlwaysEnqueued(raised) == "enqueued"

\* lines 82 and 107-165: the status of the result
StatusOf(raised) == IF raised = "none" THEN "enqueued" ELSE "error"

\* lines 88-165: the error text of the handler that catches `raised`
ErrorText(raised) ==
    CASE raised = "redis.ConnectionError" -> "Redis connection error: "
      [] raised = "redis.TimeoutError" -> "Redis timeout error: "
      [] raised = "redis.RedisError" -> "Redis error: "
      [] OTHER -> "Unexpected error: "

\* Coordinator.process_task: pushes through the client taken at construction
ProcessTask(spec, fault) ==
    /\ QueueCalls < MaxCalls
    /\ total_tasks_processed' = total_tasks_processed + 1
    /\ coordArg' = spec
    /\ LET raised == PushRaises(fault) IN
       IF raised = "none"
       THEN /\ Len(pushed) < MaxPushed
            /\ PushItem(spec)
            /\ total_tasks_enqueued' = total_tasks_enqueued + 1
            /\ coordResult' = [status |-> StatusOf(raised), task_id |-> spec.id,
                               error |-> ""]
       ELSE /\ coordResult' = [status |-> StatusOf(raised), task_id |-> spec.id,
                               error |-> ErrorText(raised)]
            /\ UNCHANGED <<channel, pushed, interleaved, total_tasks_enqueued>>
    /\ UNCHANGED <<redisUp, redis_shutdown, redisResult, enqueue_count, dequeue_count, mqResult,
                   workerPc, workerTask, workerLast, shutdown_event, taskStatus, popped>>

\* a worker that has processed nothing yet
NoProcessing == [id |-> 0, raised |-> FALSE, wrote |-> "nothing"]

\* the Worker as a caller of db_pool
WorkerCaller(w) == w

\* Worker.__init__, lines 21-26: the worker takes its store connection,
\* self.db_conn, from db_pool and keeps it; when get_connection raises, the
\* constructor raises and run is never entered
WorkerNew(w, connectOk) ==
    /\ workerPc[w] = "new"
    /\ GetConnection(WorkerCaller(w), connectOk)
    /\ workerPc' = [workerPc EXCEPT ![w] = IF dbResult' = "ok" THEN "loop" ELSE "failed"]
    /\ UNCHANGED <<channel, redisUp, redis_shutdown, redisResult, enqueue_count, dequeue_count,
                   mqResult, total_tasks_processed, total_tasks_enqueued,
                   coordResult, coordArg, workerTask, workerLast, shutdown_event,
                   taskStatus, pushed, popped, interleaved>>

\* Worker.run, line 33: the loop test finds shutdown_event set, run returns
WorkerExit(w) ==
    /\ workerPc[w] = "loop"
    /\ shutdown_event[w]
    /\ workerPc' = [workerPc EXCEPT ![w] = "stopped"]
    /\ UNCHANGED <<channel, redisUp, redis_shutdown, redisResult, enqueue_count, dequeue_count,
                   mqResult, total_tasks_processed, total_tasks_enqueued,
                   coordResult, coordArg, workerTask, workerLast, shutdown_event,
                   taskStatus, pushed, popped, interleaved>>

\* Worker.run, lines 33-37: the loop test finds shutdown_event clear and the
\* worker calls brpop, which has no timeout
WorkerEnter(w) ==
    /\ workerPc[w] = "loop"
    /\ ~shutdown_event[w]
    /\ workerPc' = [workerPc EXCEPT ![w] = "brpop"]
    /\ UNCHANGED <<channel, redisUp, redis_shutdown, redisResult, enqueue_count, dequeue_count,
                   mqResult, total_tasks_processed, total_tasks_enqueued,
                   coordResult, coordArg, workerTask, workerLast, shutdown_event,
                   taskStatus, pushed, popped, interleaved>>

\* Worker.run, lines 37-39: the blocking pop returns an item and it is decoded
WorkerPop(w) ==
    /\ workerPc[w] = "brpop"
    /\ redisUp
    /\ channel /= <<>>
    /\ PopItem("worker")
    /\ workerTask' = [workerTask EXCEPT ![w] = Loads(RightMost(channel).wire)]
    /\ workerPc' = [workerPc EXCEPT ![w] = "process"]
    /\ UNCHANGED <<redisUp, redis_shutdown, redisResult, enqueue_count, dequeue_count, mqResult,
                   total_tasks_processed, total_tasks_enqueued, coordResult, coordArg,
                   workerLast, shutdown_event, taskStatus>>

\* what brpop raises when the backend cannot be reached or does not answer
\* in time; redis.TimeoutError is not a redis.ConnectionError
PopFaults == {"redis.ConnectionError", "redis.TimeoutError"}

\* Worker.run, lines 41-47: where the except clause that catches the fault
\* leaves the worker; only the clause of redis.ConnectionError sleeps
PopHandler(fault) == IF fault = "redis.ConnectionError" THEN "sleep" ELSE "loop"

\* Worker.run, lines 37-47: the pop raises fault and the matching except
\* clause runs
WorkerPopRaises(w, fault) ==
    /\ workerPc[w] = "brpop"
    /\ ~redisUp
    /\ workerPc' = [workerPc EXCEPT ![w] = PopHandler(fault)]
    /\ UNCHANGED <<channel, redisUp, redis_shutdown, redisResult, enqueue_count, dequeue_count,
                   mqResult, total_tasks_processed, total_tasks_enqueued,
                   coordResult, coordArg, workerTask, workerLast, shutdown_event,
                   taskStatus, pushed, popped, interleaved>>

\* Worker.run, lines 41-43: the pop raises redis.ConnectionError, the
\* worker sleeps 5 seconds
WorkerPopFails(w) ==
    /\ workerPc[w] = "brpop"
    /\ ~redisUp
    /\ workerPc' = [workerPc EXCEPT ![w] = "sleep"]
    /\ UNCHANGED <<channel, redisUp, redis_shutdown, redisResult, enqueue_count, dequeue_count,
                   mqResult, total_tasks_processed, total_tasks_enqueued,
                   coordResult, coordArg, workerTask, workerLast, shutdown_event,
                   taskStatus, pushed, popped, interleaved>>

\* the sleep of line 43 ends
WorkerWake(w) ==
    /\ workerPc[w] = "sleep"
    /\ workerPc' = [workerPc EXCEPT ![w] = "loop"]
    /\ UNCHANGED <<channel, redisUp, redis_shutdown, redisResult, enqueue_count, dequeue_count,
                   mqResult, total_tasks_processed, total_tasks_enqueued,
                   coordResult, coordArg, workerTask, workerLast, shutdown_event,
                   taskStatus, pushed, popped, interleaved>>

\* what the agent does with a task it is given: it does the work, it fails
\* (navigation fails, or something raises inside its try), or it raises
AgentBehaviours == {"ok", "fails", "raises"}

\* BrowserAgent.execute_task: the status of its result, or "raises"
ExecuteTask(task, agent) ==
    IF agent = "raises" THEN "raises"
    ELSE IF task.url = "" THEN "error"
    ELSE IF agent = "ok" THEN "completed" ELSE "error"

\* worker.py line 59: status = result.get("status")
StatusToWrite(result) == result

\* Worker.process_task: dispatch, then the status write; when the agent or
\* the write raises, the handler tries to write 'failed'
WorkerProcess(w, agent, writeOk, failedWriteOk) ==
    /\ workerPc[w] = "process"
    /\ LET task == workerTask[w]
           result == IF task.browser_task THEN ExecuteTask(task, agent)
                     ELSE "completed"
           raised == result = "raises" \/ ~writeOk
           wrote == IF ~raised THEN StatusToWrite(result)
                    ELSE IF failedWriteOk THEN "failed" ELSE "nothing"
       IN /\ taskStatus' = IF wrote = "nothing" THEN taskStatus
                           ELSE [taskStatus EXCEPT ![task.id] = wrote]
          /\ workerLast' = [workerLast EXCEPT ![w] =
                              [id |-> task.id, raised |-> raised, wrote |-> wrote]]
    /\ workerPc' = [workerPc EXCEPT ![w] = "loop"]
    /\ workerTask' = [workerTask EXCEPT ![w] = NoTask]
    /\ UNCHANGED <<channel, redisUp, redis_shutdown, redisResult, enqueue_count, dequeue_count,
                   mqResult, total_tasks_processed, total_tasks_enqueued,
                   coordResult, coordArg, shutdown_event, pushed, popped, interleaved>>

\* the values of tasks.status the task lifecycle names
StatusValues == {"pending", "enqueued", "running", "completed", "failed"}

\* PATCH /api/tasks/{uuid} with a status: update_task writes it as given
UpdateTask(id, status) ==
    /\ taskStatus' = [taskStatus EXCEPT ![id] = status]
    /\ UNCHANGED <<channel, redisUp, redis_shutdown, redisResult, enqueue_count, dequeue_count,
                   mqResult, total_tasks_processed, total_tasks_enqueued,
                   coordResult, coordArg, workerPc, workerTask, workerLast,
                   shutdown_event, pushed, popped, interleaved>>

\* RedisConnectionPool.get_connection
RedisGetConnection ==
    /\ redisResult' = RedisAcquire
    /\ UNCHANGED <<channel, redisUp, redis_shutdown, enqueue_count, dequeue_count,
                   mqResult, total_tasks_processed, total_tasks_enqueued,
                   coordResult, coordArg, workerPc, workerTask, workerLast,
                   shutdown_event, taskStatus, pushed, popped, interleaved>>

\* RedisConnectionPool.close_all, its effect on the pool: nothing when the
\* pool is shut down already
RedisCloseAll ==
    IF redis_shutdown
    THEN UNCHANGED <<redis_shutdown, redisResult>>
    ELSE /\ redis_shutdown' = TRUE
         /\ redisResult' = "closed"

\* a caller of RedisConnectionPool.close_all
RedisClose ==
    /\ RedisCloseAll
    /\ UNCHANGED <<channel, redisUp, enqueue_count, dequeue_count,
                   mqResult, total_tasks_processed, total_tasks_enqueued,
                   coordResult, coordArg, workerPc, workerTask, workerLast,
                   shutdown_event, taskStatus, pushed, popped, interleaved>>

\* Worker.shutdown: sets the flag and closes both pools
WorkerShutdown(w) ==
    /\ ~shutdown_event[w]
    /\ shutdown_event' = [shutdown_event EXCEPT ![w] = TRUE]
    /\ RedisCloseAll
    /\ CloseAll
    /\ UNCHANGED <<channel, redisUp, enqueue_count, dequeue_count, mqResult,
                   total_tasks_processed, total_tasks_enqueued, coordResult, coordArg,
                   workerPc, workerTask, workerLast, taskStatus, pushed, popped, interleaved>>

\* the environment: the Redis server goes away or comes back
RedisToggle ==
    /\ redisUp' = ~redisUp
    /\ UNCHANGED <<channel, redis_shutdown, redisResult, enqueue_count, dequeue_count, mqResult,
                   total_tasks_processed, total_tasks_enqueued, coordResult, coordArg,
                   workerPc, workerTask, workerLast, shutdown_event, taskStatus,
                   pushed, popped, interleaved>>

\* the queue components on an empty channel, each worker at position pc
QueueInitAt(pc) ==
    /\ channel = <<>>
    /\ redisUp = TRUE
    /\ redis_shutdown = FALSE
    /\ redisResult = "none"
    /\ enqueue_count = 0
    /\ dequeue_count = 0
    /\ mqResult = [op |-> "none", ret |-> "none", item |-> NoTask, raised |-> "none"]
    /\ total_tasks_processed = 0
    /\ total_tasks_enqueued = 0
    /\ coordResult = [status |-> "none", task_id |-> 0, error |-> ""]
    /\ coordArg = NoTask
    /\ workerPc = [w \in Workers |-> pc]
    /\ workerTask = [w \in Workers |-> NoTask]
    /\ workerLast = [w \in Workers |-> NoProcessing]
    /\ shutdown_event = [w \in Workers |-> FALSE]
    /\ taskStatus = [i \in TaskIds |-> "pending"]
    /\ pushed = <<>>
    /\ popped = <<>>
    /\ interleaved = FALSE

\* the queue components after construction, each worker at its loop test
QueueInit == QueueInitAt("loop")

(***************************************************************************)
(* CircuitBreaker                                                          *)
(***************************************************************************)
breakerVars == <<failure_threshold, recovery_timeout, state, failure_count,
                 last_failure_time, now, breakerCalls, consecutive, lastCall,
                 calledIn>>

\* what the wrapped function does when it is invoked: returns, raises an
\* exception matching expected_exception, raises another one
FuncBehaviours == {"ok", "expected", "other"}

\* the recovery test with the timeout comparison dropped
RecoveryElapsedNoWait(t) == last_failure_time /= 0

\* the recovery test with a strict comparison
RecoveryElapsedStrict(t) ==
    last_failure_time /= 0 /\ t - last_failure_time > recovery_timeout

\* line 201: self.last_failure_time and
\*           time.time() - self.last_failure_time >= self.recovery_timeout
RecoveryElapsed(t) ==
    last_failure_time /= 0 /\ t - last_failure_time >= recovery_timeout

\* a success that leaves the failure count as it is
CountAfterSuccessKept(count) == count

\* line 214: self.failure_count = 0
CountAfterSuccess(count) == 0

\* a failure time recorded only when none was recorded before
FailureTimeKept(t) == IF last_failure_time = 0 THEN t ELSE last_failure_time

\* line 218: self.last_failure_time = time.time()
FailureTime(t) == t

\* a breaker that opens one failure late
ThresholdExceeded(count) == count > failure_threshold

\* line 221: self.failure_count >= self.failure_threshold
ThresholdReached(count) == count >= failure_threshold

\* lines 200-205: the state func is invoked in, or "rejected"
Admit(t) ==
    IF state = "OPEN"
    THEN IF RecoveryElapsed(t) THEN "HALF_OPEN" ELSE "rejected"
    ELSE state

\* a breaker that opens on every exception of func
StateAfterUnexpectedOpens(admitted) == "OPEN"

\* lines 207-225: an exception that does not match expected_exception meets
\* no except clause; self.state stays what line 202 left it
StateAfterUnexpected(admitted) == admitted

\* a trial call whose success leaves the breaker half open
StateAfterSuccessKept(admitted) == admitted

\* lines 211-213: a success in HALF_OPEN closes the breaker
StateAfterSuccess(admitted) == IF admitted = "HALF_OPEN" THEN "CLOSED" ELSE admitted

\* CircuitBreaker.call(func), lines 200-225: func behaves as f and takes d
\* clock ticks
Invoke(f, d) ==
    /\ now + d <= MaxTime
    /\ calledIn' = state
    /\ UNCHANGED <<failure_threshold, recovery_timeout>>
    /\ LET admitted == Admit(now) IN
       IF admitted = "rejected"
       THEN /\ lastCall' = [func |-> "none", outcome |-> "CircuitBreakerError"]
            /\ UNCHANGED <<state, failure_count, last_failure_time, now, consecutive>>
       ELSE /\ now' = now + d
            /\ CASE f = "ok" ->
                    /\ state' = StateAfterSuccess(admitted)
                    /\ failure_count' = CountAfterSuccess(failure_count)
                    /\ consecutive' = 0
                    /\ lastCall' = [func |-> f, outcome |-> "returned"]
                    /\ UNCHANGED last_failure_time
                 [] f = "expected" ->
                    /\ failure_count' = failure_count + 1
                    /\ last_failure_time' = FailureTime(now + d)
                    /\ state' = IF ThresholdReached(failure_count + 1)
                                   \/ admitted = "HALF_OPEN"
                                THEN "OPEN" ELSE admitted
                    /\ consecutive' = consecutive + 1
                    /\ lastCall' = [func |-> f, outcome |-> "raised_expected"]
                 [] f = "other" ->
                    /\ state' = StateAfterUnexpected(admitted)
                    /\ lastCall' = [func |-> f, outcome |-> "raised_other"]
                    /\ UNCHANGED <<failure_count, last_failure_time, consecutive>>

\* one of at most MaxBreakerCalls calls of CircuitBreaker.call(func)
Call(f, d) ==
    /\ breakerCalls < MaxBreakerCalls
    /\ breakerCalls' = breakerCalls + 1
    /\ Invoke(f, d)

\* time passes between calls
Tick ==
    /\ now < MaxTime
    /\ now' = now + 1
    /\ UNCHANGED <<failure_threshold, recovery_timeout, state, failure_count,
                   last_failure_time, breakerCalls, consecutive, lastCall, calledIn>>

\* CircuitBreakerInit(th, rt): a fresh CircuitBreaker(name, th, rt)
CircuitBreakerInit(th, rt) ==
    /\ failure_threshold = th
    /\ recovery_timeout = rt
    /\ state = "CLOSED"
    /\ failure_count = 0
    /\ last_failure_time = 0
    /\ now = 1
    /\ breakerCalls = 0
    /\ consecutive = 0
    /\ lastCall = [func |-> "none", outcome |-> "none"]
    /\ calledIn = "none"

\* a breaker constructed with the defaults
BreakerIdle == CircuitBreakerInit(DefaultFailureThreshold, DefaultRecoveryTimeout)

(***************************************************************************)
(* CircuitBreaker.call, statement by statement, with several threads in    *)
(* it: the class holds no lock                                             *)
(***************************************************************************)
runVars == <<callPc, enteredIn, failedPops, healed>>

BreakerThreads == Callers

\* line 200-205: the test of the state; an OPEN breaker whose timeout has
\* not elapsed raises CircuitBreakerError
CallTest(t) ==
    /\ callPc[t] = "idle"
    /\ breakerCalls < MaxBreakerCalls
    /\ breakerCalls' = breakerCalls + 1
    /\ calledIn' = state
    /\ enteredIn' = [enteredIn EXCEPT ![t] = state]
    /\ IF state = "OPEN"
       THEN IF RecoveryElapsed(now)
            THEN /\ callPc' = [callPc EXCEPT ![t] = "half_open"]
                 /\ UNCHANGED lastCall
            ELSE /\ lastCall' = [func |-> "none", outcome |-> "CircuitBreakerError"]
                 /\ UNCHANGED callPc
       ELSE /\ callPc' = [callPc EXCEPT ![t] = "invoke"]
            /\ UNCHANGED lastCall
    /\ UNCHANGED <<failure_threshold, recovery_timeout, state, failure_count,
                   last_failure_time, now, consecutive>>

\* line 202: self.state = "HALF_OPEN"
CallHalfOpen(t) ==
    /\ callPc[t] = "half_open"
    /\ state' = "HALF_OPEN"
    /\ callPc' = [callPc EXCEPT ![t] = "invoke"]
    /\ UNCHANGED <<failure_threshold, recovery_timeout, failure_count,
                   last_failure_time, now, breakerCalls, consecutive, lastCall, calledIn,
                   enteredIn>>

\* line 208: func(*args, **kwargs) is entered
CallInvoke(t) ==
    /\ callPc[t] = "invoke"
    /\ callPc' = [callPc EXCEPT ![t] = "func"]
    /\ UNCHANGED <<failure_threshold, recovery_timeout, state, failure_count,
                   last_failure_time, now, breakerCalls, consecutive, lastCall, calledIn,
                   enteredIn>>

\* lines 208-225: func ends as f and the thread leaves call
CallFinish(t, f) ==
    /\ callPc[t] = "func"
    /\ callPc' = [callPc EXCEPT ![t] = "idle"]
    /\ UNCHANGED <<failure_threshold, recovery_timeout, now, breakerCalls, calledIn,
                   enteredIn>>
    /\ CASE f = "ok" ->
            /\ state' = StateAfterSuccess(state)
            /\ failure_count' = CountAfterSuccess(failure_count)
            /\ consecutive' = 0
            /\ lastCall' = [func |-> f, outcome |-> "returned"]
            /\ UNCHANGED last_failure_time
         [] f = "expected" ->
            /\ failure_count' = failure_count + 1
            /\ last_failure_time' = FailureTime(now)
            /\ state' = IF ThresholdReached(failure_count + 1) \/ state = "HALF_OPEN"
                        THEN "OPEN" ELSE state
            /\ consecutive' = consecutive + 1
            /\ lastCall' = [func |-> f, outcome |-> "raised_expected"]
         [] f = "other" ->
            /\ lastCall' = [func |-> f, outcome |-> "raised_other"]
            /\ UNCHANGED <<state, failure_count, last_failure_time, consecutive>>

RunInit ==
    /\ callPc = [t \in BreakerThreads |-> "idle"]
    /\ enteredIn = [t \in BreakerThreads |-> "none"]
    /\ failedPops = [w \in Workers |-> 0]
    /\ healed = "no"

(***************************************************************************)
(* Error taxonomy and ExponentialBackoffStrategy.should_retry              *)
(***************************************************************************)
\* the exception classes of the repository and the builtins it names;
\* "exceptions." is core/exceptions.py, "error_recovery." is
\* core/error_recovery.py, "database." is core/database.py
TaxonomyClasses ==
    { "exceptions.AgenticError", "exceptions.DatabaseError", "exceptions.RedisError",
      "exceptions.APIError", "exceptions.ValidationError",
      "exceptions.ConfigurationError", "exceptions.ResourceError",
      "exceptions.FileIOError", "error_recovery.ValidationError",
      "error_recovery.ConfigurationError", "error_recovery.CircuitBreakerError" }
ErrorClasses ==
    TaxonomyClasses \cup {"database.DatabaseError", "ConnectionError",
                          "TimeoutError", "ValueError"}

\* the base class of each class ("Exception" is the root modelled)
BaseOf(c) ==
    CASE c = "exceptions.AgenticError" -> "Exception"
      [] c \in TaxonomyClasses \ {"exceptions.AgenticError"} -> "exceptions.AgenticError"
      [] c \in {"ConnectionError", "TimeoutError"} -> "OSError"
      [] OTHER -> "Exception"

\* isinstance(error, t) for an error of class c
IsInstance(c, t) == c = t \/ BaseOf(c) = t \/ BaseOf(BaseOf(c)) = t

\* the names ValidationError and ConfigurationError as bound in
\* core/error_recovery.py (its own classes, lines 52 and 66)
PermanentErrors == {"error_recovery.ValidationError", "error_recovery.ConfigurationError"}

\* the tuple transient_errors of should_retry; DatabaseError, RedisError,
\* APIError and FileIOError are the imports of line 10
TransientErrors ==
    { "exceptions.DatabaseError", "exceptions.RedisError", "exceptions.APIError",
      "exceptions.FileIOError", "ConnectionError", "TimeoutError" }

\* ExponentialBackoffStrategy.should_retry(error, attempt)
ShouldRetry(error, a) ==
    IF IsInstance(error, "exceptions.AgenticError")
    THEN ~(\E t \in PermanentErrors : IsInstance(error, t))
    ELSE \E t \in TransientErrors : IsInstance(error, t)

(***************************************************************************)
(* retry_with_backoff                                                      *)
(***************************************************************************)
retryVars == <<max_attempts, has_on_retry, attempt, retryPc, invocations,
               on_retry_calls, last_error, retryRaised>>

\* a loop that gives up one attempt early
MayRetryEarly(a) == a + 1 < max_attempts

\* line 274: attempt < max_attempts
MayRetry(a) == a < max_attempts

\* lines 267-292: one pass of the loop body; func returns ("ok") or raises
\* an exception of class `outcome`
RetryInvoke(outcome) ==
    /\ retryPc = "call"
    /\ attempt <= max_attempts
    /\ invocations' = invocations + 1
    /\ UNCHANGED <<max_attempts, has_on_retry, attempt>>
    /\ IF outcome = "ok"
       THEN /\ retryPc' = "returned"
            /\ UNCHANGED <<on_retry_calls, last_error, retryRaised>>
       ELSE /\ last_error' = outcome
            /\ IF MayRetry(attempt) /\ ShouldRetry(outcome, attempt)
               THEN /\ on_retry_calls' = on_retry_calls + (IF has_on_retry THEN 1 ELSE 0)
                    /\ retryPc' = "sleep"
                    /\ UNCHANGED retryRaised
               ELSE /\ retryPc' = "raised"
                    /\ retryRaised' = outcome
                    /\ UNCHANGED on_retry_calls

\* line 289: time.sleep(delay) returns and the loop goes to the next attempt
RetrySleepDone ==
    /\ retryPc = "sleep"
    /\ retryPc' = "call"
    /\ attempt' = attempt + 1
    /\ UNCHANGED <<max_attempts, has_on_retry, invocations, on_retry_calls,
                   last_error, retryRaised>>

\* line 295: the loop ended without returning or raising, which it does only
\* when range(1, max_attempts + 1) is empty; raise last_error with last_error
\* None raises TypeError
RetryExhausted ==
    /\ retryPc = "call"
    /\ attempt > max_attempts
    /\ retryPc' = "raised"
    /\ retryRaised' = IF last_error = "None" THEN "TypeError" ELSE last_error
    /\ UNCHANGED <<max_attempts, has_on_retry, attempt, invocations, on_retry_calls,
                   last_error>>

\* a call of a function decorated with retry_with_backoff(max_attempts=n,
\* on_retry=...) enters the loop
RetryInit(n, cb) ==
    /\ max_attempts = n
    /\ has_on_retry = cb
    /\ attempt = 1
    /\ retryPc = "call"
    /\ invocations = 0
    /\ on_retry_calls = 0
    /\ last_error = "None"
    /\ retryRaised = "None"

\* a wrapper built with the defaults
RetryIdle == RetryInit(DefaultMaxAttempts, FALSE)

(***************************************************************************)
(* ExponentialBackoffStrategy.get_delay                                    *)
(***************************************************************************)
backoffVars == <<base_delay, max_delay, multiplier, jitter, delayAttempt,
                 delay, delayRaised>>

\* the float inf: what an arithmetic result beyond FloatMax becomes
Inf == FloatMax + 1

\* delays are recorded in quarters, so that the jitter factors are exact
Quarters == 4

\* random.random() in line 152: 0.0 or 0.5, in halves
RandomHalves == 0..1

Min(a, b) == IF a <= b THEN a ELSE b

\* m ** e on floats, before the range check: inf beyond FloatMax
RECURSIVE FloatPow(_, _)
FloatPow(m, e) ==
    IF e = 0 THEN 1
    ELSE LET r == FloatPow(m, e - 1) IN
         IF r = Inf \/ r * m > FloatMax THEN Inf ELSE r * m

\* a * b on floats: inf beyond FloatMax, no exception
FloatMul(a, b) == IF a = Inf \/ b = Inf \/ a * b > FloatMax THEN Inf ELSE a * b

\* get_delay(a), lines 149-154; r is what random.random() returns.
\* float ** raises OverflowError when its result is out of range.
GetDelay(a, r) ==
    /\ delayAttempt' = a
    /\ UNCHANGED <<base_delay, max_delay, multiplier, jitter>>
    /\ LET p == FloatPow(multiplier, a - 1) IN
       IF p = Inf
       THEN /\ delayRaised' = "OverflowError"
            /\ UNCHANGED delay
       ELSE LET capped == Min(FloatMul(base_delay, p), max_delay) IN
            /\ delayRaised' = "None"
            /\ delay' = IF jitter THEN capped * (2 + r) ELSE capped * Quarters

\* ExponentialBackoffStrategy(base_delay=b, max_delay=c, multiplier=m, jitter=j)
BackoffInit(b, c, m, j) ==
    /\ base_delay = b
    /\ max_delay = c
    /\ multiplier = m
    /\ jitter = j
    /\ delayAttempt = 0
    /\ delay = 0
    /\ delayRaised = "None"

\* a strategy built with the defaults
BackoffIdle == BackoffInit(DefaultBaseDelay, DefaultMaxDelay, DefaultMultiplier, TRUE)

(***************************************************************************)
(* ErrorRateLimiter                                                        *)
(***************************************************************************)
limiterVars == <<max_errors_per_second, max_errors_per_minute, window_size_seconds,
                 error_timestamps, error_counts_per_second,
                 error_counts_per_minute, limiterNow, advances, limiterLog>>

\* time.time() is a float: the clock of the model has two ticks per second
TicksPerSecond == 2

ErrorTypes == {"error_type_1", "error_type_2"}

\* int(t) and int(t // 60) of a time in ticks
SecondOf(t) == t \div TicksPerSecond
MinuteOf(t) == t \div (TicksPerSecond * SecondsPerMinute)

Seconds == 0..SecondOf(MaxLimiterTime)
Minutes == 0..MinuteOf(MaxLimiterTime)

\* an eviction that leaves the bucket's count as it is
DecrementedKept(n) == n

\* lines 64-66 and 68-70: the bucket's count minus one; a bucket that reaches
\* zero is deleted, and a deleted bucket reads 0
Decremented(n) == IF n - 1 <= 0 THEN 0 ELSE n - 1

\* line 58: a retained timestamp that has left the window at time t
Expired(old, t) == t - old > window_size_seconds * TicksPerSecond

\* lines 58-70: drop the timestamps older than the window from the left of
\* the deque and decrement their buckets
RECURSIVE Evict(_, _, _, _)
Evict(ts, cs, cm, t) ==
    IF ts /= <<>> /\ Expired(Head(ts), t)
    THEN LET old == Head(ts) IN
         Evict(Tail(ts),
               [cs EXCEPT ![SecondOf(old)] = Decremented(@)],
               [cm EXCEPT ![MinuteOf(old)] = Decremented(@)],
               t)
    ELSE [ts |-> ts, cs |-> cs, cm |-> cm]

\* a check that lets one more through
SecondCeilingReachedLate(n) == n > max_errors_per_second

\* line 73: the per-second ceiling is reached
SecondCeilingReached(n) == n >= max_errors_per_second

\* line 77: the per-minute ceiling is reached
MinuteCeilingReached(n) == n >= max_errors_per_minute

\* is_allowed(e), lines 53-87, under self.lock
IsAllowed(e) ==
    /\ Len(limiterLog) < MaxLimiterCalls
    /\ UNCHANGED <<max_errors_per_second, max_errors_per_minute,
                   window_size_seconds, limiterNow, advances>>
    /\ LET kept == Evict(error_timestamps, error_counts_per_second,
                         error_counts_per_minute, limiterNow)
           sec == SecondOf(limiterNow)
           min == MinuteOf(limiterNow)
           ok == /\ ~SecondCeilingReached(kept.cs[sec])
                 /\ ~MinuteCeilingReached(kept.cm[min])
       IN /\ limiterLog' = Append(limiterLog,
                 [t |-> limiterNow, error_type |-> e, allowed |-> ok])
          /\ IF ok
             THEN /\ error_timestamps' = Append(kept.ts, limiterNow)
                  /\ error_counts_per_second' = [kept.cs EXCEPT ![sec] = @ + 1]
                  /\ error_counts_per_minute' = [kept.cm EXCEPT ![min] = @ + 1]
             ELSE /\ error_timestamps' = kept.ts
                  /\ error_counts_per_second' = kept.cs
                  /\ error_counts_per_minute' = kept.cm

\* time passes between calls: a tick, or half a minute
TimeSteps == {1, 30 * TicksPerSecond}
Advance(d) ==
    /\ advances < MaxAdvances
    /\ limiterNow + d <= MaxLimiterTime
    /\ limiterNow' = limiterNow + d
    /\ advances' = advances + 1
    /\ UNCHANGED <<max_errors_per_second, max_errors_per_minute,
                   window_size_seconds, error_timestamps,
                   error_counts_per_second, error_counts_per_minute, limiterLog>>

\* ErrorRateLimiter(max_errors_per_second=s, max_errors_per_minute=m,
\* window_size_seconds=w)
LimiterInit(s, m, w) ==
    /\ max_errors_per_second = s
    /\ max_errors_per_minute = m
    /\ window_size_seconds = w
    /\ error_timestamps = <<>>
    /\ error_counts_per_second = [x \in Seconds |-> 0]
    /\ error_counts_per_minute = [x \in Minutes |-> 0]
    /\ limiterNow = 0
    /\ advances = 0
    /\ limiterLog = <<>>

\* a limiter built with the defaults
LimiterIdle ==
    LimiterInit(DefaultMaxErrorsPerSecond, DefaultMaxErrorsPerMinute, DefaultWindowSize)

(***************************************************************************)
(* AdaptiveErrorRateLimiter                                                *)
(***************************************************************************)
adaptiveConfig == <<initial_max_errors_per_second, initial_max_errors_per_minute,
                    adjustment_threshold, adjustment_factor>>
adaptiveVars == <<adaptiveConfig, lastAdjust, shadow>>

\* usages and thresholds are compared in tenths, factors applied in halves
Tenths == 10
Halves == 2

Max(a, b) == IF a >= b THEN a ELSE b

\* an argument that was not given (None)
NotGiven == 0

\* lines 142-143: max_errors_per_second or initial_max_errors_per_second
GivenOr(given, initial) == IF given = NotGiven THEN initial ELSE given

\* lines 219-223: count / ceiling > self.adjustment_threshold
UsageHigh(count, ceiling) == count * Tenths > adjustment_threshold * ceiling

\* line 231: count / ceiling < 0.1
UsageLow(count, ceiling) == count * Tenths < ceiling

\* lines 225-226: int(ceiling * self.adjustment_factor)
Raised(ceiling) == (ceiling * adjustment_factor) \div Halves

\* lines 233-240: max(initial, int(ceiling / self.adjustment_factor))
Lowered(initial, ceiling) == Max(initial, (ceiling * Halves) \div adjustment_factor)

\* a test that lets the adjustment start one sample early
EnoughSamplesEarly(n) == n >= AdjustMinSamples - 1

\* lines 211-212: _adjust_limits returns when len(self.error_timestamps) < 10
EnoughSamples(n) == n >= AdjustMinSamples

\* _adjust_limits, lines 208-248, for the window ts and the counts of the
\* current second and minute: the two ceilings it leaves
AdjustLimits(ts, second_count, minute_count) ==
    IF ~EnoughSamples(Len(ts))
    THEN [branch |-> "few", s |-> max_errors_per_second, m |-> max_errors_per_minute]
    ELSE IF /\ UsageHigh(second_count, max_errors_per_second)
            /\ UsageHigh(minute_count, max_errors_per_minute)
    THEN [branch |-> "high",
          s |-> Raised(max_errors_per_second), m |-> Raised(max_errors_per_minute)]
    ELSE IF /\ UsageLow(second_count, max_errors_per_second)
            /\ UsageLow(minute_count, max_errors_per_minute)
    THEN [branch |-> "low",
          s |-> Lowered(initial_max_errors_per_second, max_errors_per_second),
          m |-> Lowered(initial_max_errors_per_minute, max_errors_per_minute)]
    ELSE [branch |-> "between", s |-> max_errors_per_second, m |-> max_errors_per_minute]

\* ErrorRateLimiter.is_allowed, lines 53-87, as a function of the limiter
\* sh (its deque, its buckets and its ceilings s and m) and the time t
BaseIsAllowed(sh, t) ==
    LET kept == Evict(sh.ts, sh.cs, sh.cm, t)
        sec == SecondOf(t)
        min == MinuteOf(t)
        ok == ~(kept.cs[sec] >= sh.s) /\ ~(kept.cm[min] >= sh.m)
    IN [ok |-> ok,
        ts |-> IF ok THEN Append(kept.ts, t) ELSE kept.ts,
        cs |-> IF ok THEN [kept.cs EXCEPT ![sec] = @ + 1] ELSE kept.cs,
        cm |-> IF ok THEN [kept.cm EXCEPT ![min] = @ + 1] ELSE kept.cm]

\* AdaptiveErrorRateLimiter.is_allowed, lines 158-206, under self.lock; the
\* error type goes into error_type_counts and the log only
AdaptiveIsAllowed ==
    /\ Len(error_timestamps) < MaxAdaptiveErrors
    /\ UNCHANGED <<window_size_seconds, limiterNow, advances, limiterLog, adaptiveConfig>>
    /\ LET kept == Evict(error_timestamps, error_counts_per_second,
                         error_counts_per_minute, limiterNow)
           sec == SecondOf(limiterNow)
           min == MinuteOf(limiterNow)
           ok == /\ ~SecondCeilingReached(kept.cs[sec])
                 /\ ~MinuteCeilingReached(kept.cm[min])
           base == BaseIsAllowed(shadow, limiterNow)
       IN IF ok
          THEN LET limits == AdjustLimits(Append(kept.ts, limiterNow),
                                          kept.cs[sec] + 1, kept.cm[min] + 1)
               IN /\ error_timestamps' = Append(kept.ts, limiterNow)
                  /\ error_counts_per_second' = [kept.cs EXCEPT ![sec] = @ + 1]
                  /\ error_counts_per_minute' = [kept.cm EXCEPT ![min] = @ + 1]
                  /\ max_errors_per_second' = limits.s
                  /\ max_errors_per_minute' = limits.m
                  /\ lastAdjust' = [branch |-> limits.branch,
                                    retained |-> Len(kept.ts) + 1,
                                    second_count |-> kept.cs[sec] + 1,
                                    minute_count |-> kept.cm[min] + 1,
                                    s |-> max_errors_per_second,
                                    m |-> max_errors_per_minute]
                  /\ shadow' = [shadow EXCEPT
                                   !.ts = base.ts, !.cs = base.cs, !.cm = base.cm,
                                   !.agree = @ /\ base.ok,
                                   !.few = @ /\ limits.branch = "few"]
          ELSE /\ error_timestamps' = kept.ts
               /\ error_counts_per_second' = kept.cs
               /\ error_counts_per_minute' = kept.cm
               /\ UNCHANGED <<max_errors_per_second, max_errors_per_minute>>
               /\ lastAdjust' = [branch |-> "denied",
                                 retained |-> Len(kept.ts),
                                 second_count |-> kept.cs[sec],
                                 minute_count |-> kept.cm[min],
                                 s |-> max_errors_per_second,
                                 m |-> max_errors_per_minute]
               /\ shadow' = [shadow EXCEPT
                                !.ts = base.ts, !.cs = base.cs, !.cm = base.cm,
                                !.agree = @ /\ ~base.ok]

\* no call yet; the ErrorRateLimiter to compare with has the ceilings s, m
AdaptiveHistoryInit(s, m) ==
    /\ lastAdjust = [branch |-> "none", retained |-> 0, second_count |-> 0,
                     minute_count |-> 0, s |-> s, m |-> m]
    /\ shadow = [ts |-> <<>>,
                 cs |-> [x \in Seconds |-> 0],
                 cm |-> [x \in Minutes |-> 0],
                 s |-> s, m |-> m, agree |-> TRUE, few |-> TRUE]

\* AdaptiveErrorRateLimiter(initial_max_errors_per_second=is,
\* initial_max_errors_per_minute=im, max_errors_per_second=s,
\* max_errors_per_minute=m, adjustment_threshold=th, adjustment_factor=f)
AdaptiveInit(is, im, s, m, th, f) ==
    /\ initial_max_errors_per_second = is
    /\ initial_max_errors_per_minute = im
    /\ adjustment_threshold = th
    /\ adjustment_factor = f
    /\ LimiterInit(GivenOr(s, is), GivenOr(m, im), DefaultWindowSize)
    /\ AdaptiveHistoryInit(GivenOr(s, is), GivenOr(m, im))

\* the fields of an adaptive limiter built with the defaults
AdaptiveIdle ==
    /\ AdaptiveHistoryInit(DefaultMaxErrorsPerSecond, DefaultMaxErrorsPerMinute)
    /\ initial_max_errors_per_second = DefaultMaxErrorsPerSecond
    /\ initial_max_errors_per_minute = DefaultMaxErrorsPerMinute
    /\ adjustment_threshold = DefaultAdjustmentThreshold
    /\ adjustment_factor = DefaultAdjustmentFactor

(***************************************************************************)
(* The error context: ErrorContextManager and error_context                *)
(***************************************************************************)
contextVars == <<default_context, context_binding, context_frames, last_exit, has_written>>

\* the threads that enter scopes; each has its own contextvars.Context
ContextThreads == {"t1"}

\* a context is a dict over these keys; "none" stands for a missing key
RequestIds == {"r1"}
Uuid4 == "u1"
Contexts == [request_id : RequestIds \cup {Uuid4, "none"}, test : {"initial", "none"}]
EmptyContext == [request_id |-> "none", test |-> "none"]

\* the dicts callers pass to set_context and update_context, and the
\* keyword arguments they pass to error_context
SetChoices == {[request_id |-> "none", test |-> "initial"]}
UpdateChoices == {[request_id |-> "r1", test |-> "none"],
                  [request_id |-> "none", test |-> "initial"]}
KwargChoices == {EmptyContext, [request_id |-> "none", test |-> "initial"]}

\* dict.update(u)
DictUpdate(c, u) ==
    [request_id |-> IF u.request_id /= "none" THEN u.request_id ELSE c.request_id,
     test |-> IF u.test /= "none" THEN u.test ELSE c.test]

\* a binding is either the shared default dict (the variable was never set
\* in this thread, or was set to that very object) or a dict of its own
Unset == [shared |-> TRUE, val |-> EmptyContext]
Own(c) == [shared |-> FALSE, val |-> c]

\* _error_context.get(), read as a value
CurrentOf(b, d) == IF b.shared THEN d ELSE b.val

\* ErrorContextManager.get_context(), lines 19-26
GetContext(t) == CurrentOf(context_binding[t], default_context)

\* ErrorContextManager.set_context, lines 29-36
SetContext(t, c) ==
    /\ context_binding' = [context_binding EXCEPT ![t] = Own(c)]
    /\ has_written' = [has_written EXCEPT ![t] = TRUE]
    /\ UNCHANGED <<default_context, context_frames, last_exit>>

\* ErrorContextManager.update_context, lines 39-48: the bound dict is
\* updated in place and bound again
UpdateContext(t, u) ==
    /\ IF context_binding[t].shared
       THEN /\ default_context' = DictUpdate(default_context, u)
            /\ UNCHANGED context_binding
       ELSE /\ context_binding' =
                   [context_binding EXCEPT ![t] = Own(DictUpdate(@.val, u))]
            /\ UNCHANGED default_context
    /\ has_written' = [has_written EXCEPT ![t] = TRUE]
    /\ UNCHANGED <<context_frames, last_exit>>

\* update_context in a thread that has never set the variable: it updates
\* the shared default dict in place
UpdateContextElsewhere(u) ==
    /\ default_context' = DictUpdate(default_context, u)
    /\ UNCHANGED <<context_binding, context_frames, last_exit, has_written>>

\* ErrorContextManager.clear_context, lines 51-53
ClearContext(t) ==
    /\ context_binding' = [context_binding EXCEPT ![t] = Own(EmptyContext)]
    /\ has_written' = [has_written EXCEPT ![t] = TRUE]
    /\ UNCHANGED <<default_context, context_frames, last_exit>>

\* ErrorContextManager.set_request_id, lines 67-81: the id that is set; None
\* ("none") asks for a generated one
RequestIdSet(request_id) == IF request_id = "none" THEN Uuid4 ELSE request_id

\* a scope that keeps the binding it found instead of a copy of the dict
SavedReference(b, c) == b

\* line 94: current_context = ErrorContextManager.get_context().copy()
SavedCopy(b, c) == Own(c)

\* error_context, lines 84-101: up to the yield
ErrorContextEnter(t, request_id, kwargs) ==
    /\ Len(context_frames[t]) < MaxDepth
    /\ LET new_context ==
               DictUpdate([request_id |-> RequestIdSet(request_id), test |-> "none"],
                          kwargs)
       IN /\ context_frames' =
                 [context_frames EXCEPT ![t] =
                     Append(@, [current_context |->
                                    SavedCopy(context_binding[t], GetContext(t)),
                                before |-> GetContext(t)])]
          /\ context_binding' = [context_binding EXCEPT ![t] = Own(new_context)]
    /\ has_written' = [has_written EXCEPT ![t] = TRUE]
    /\ UNCHANGED <<default_context, last_exit>>

\* error_context, lines 102-104: the finally clause, after the body ended
\* normally or raised
ErrorContextExit(t, raised) ==
    /\ context_frames[t] /= <<>>
    /\ LET frame == context_frames[t][Len(context_frames[t])]
       IN /\ context_binding' = [context_binding EXCEPT ![t] = frame.current_context]
          /\ last_exit' = [how |-> IF raised THEN "raised" ELSE "normal",
                           depth |-> Len(context_frames[t])]
    /\ context_frames' =
           [context_frames EXCEPT ![t] = SubSeq(@, 1, Len(@) - 1)]
    /\ UNCHANGED <<default_context, has_written>>

ContextInit ==
    /\ default_context = EmptyContext
    /\ context_binding = [t \in ContextThreads |-> Unset]
    /\ context_frames = [t \in ContextThreads |-> <<>>]
    /\ last_exit = [how |-> "none", depth |-> 0]
    /\ has_written = [t \in ContextThreads |-> FALSE]

(***************************************************************************)
(* ApplicationManager (main.py): the services and the global shutdown      *)
(***************************************************************************)
appVars == <<appShutdown, appPc, mqPc>>

\* start_message_queue_processor, line 65: the loop test finds the event
\* clear and the thread calls mq.dequeue(timeout=5.0)
MqEnter ==
    /\ mqPc = "loop"
    /\ ~appShutdown
    /\ mqPc' = "dequeue"
    /\ UNCHANGED <<appShutdown, appPc>>

\* lines 67-70: dequeue returns, with a message (which is logged) or without
MqDequeue ==
    /\ mqPc = "dequeue"
    /\ Dequeue("none")
    /\ mqPc' = "loop"
    /\ UNCHANGED <<appShutdown, appPc>>

\* line 65: the loop test finds the event set, the thread ends
MqStop ==
    /\ mqPc = "loop"
    /\ appShutdown
    /\ mqPc' = "stopped"
    /\ UNCHANGED <<appShutdown, appPc>>

\* ApplicationManager.shutdown, lines 136-145: the event is set and the
\* joins begin; each waits at most 5 seconds for its thread
AppSignal ==
    /\ appPc = "running"
    /\ appShutdown' = TRUE
    /\ appPc' = "joining"
    /\ UNCHANGED mqPc

\* lines 147-165: the joins are over, both pools are closed and sys.exit
\* ends the process with its daemon threads
AppFinish ==
    /\ appPc = "joining"
    /\ appPc' = "exited"
    /\ RedisCloseAll
    /\ CloseAll
    /\ workerPc' = [w \in Workers |-> "killed"]
    /\ mqPc' = "killed"
    /\ UNCHANGED <<appShutdown, channel, redisUp, enqueue_count, dequeue_count,
                   mqResult, total_tasks_processed, total_tasks_enqueued,
                   coordResult, coordArg, workerTask, workerLast, shutdown_event,
                   taskStatus, pushed, popped, interleaved>>

\* ApplicationManager() and start_all_services()
AppInit ==
    /\ appShutdown = FALSE
    /\ appPc = "running"
    /\ mqPc = "loop"

(***************************************************************************)
(* PolicyEngine                                                            *)
(***************************************************************************)
policyVars == <<policies, decision_count, probes, decision, prevProbes, prevDecision>>

\* a key that a dict does not hold
Absent == -1

\* d.get(key, default) for the value v the dict holds under key, or Absent
Get(v, default) == IF v = Absent THEN default ELSE v

\* the default policy of _load_policies, lines 42-66: the routing threshold
\* and the browser block
DefaultPolicies ==
    [ has_browser |-> TRUE,
      prefer_cached_when_ping_ms_gt |-> DefaultPingThreshold,
      default_timeout_s |-> DefaultTimeoutS,
      max_retries |-> DefaultMaxRetries,
      headed_on_flake_rate_gt |-> DefaultHeadedThreshold ]

\* the policies a configuration file may hold: with or without a browser
\* block, each key of the block present or not
PolicyChoices ==
    [ has_browser : BOOLEAN,
      prefer_cached_when_ping_ms_gt : {DefaultPingThreshold},
      default_timeout_s : {Absent, DefaultTimeoutS, 30},
      max_retries : {Absent, DefaultMaxRetries, 3},
      headed_on_flake_rate_gt : {Absent, 10, DefaultHeadedThreshold, 50} ]

\* the env_probes callers pass: ping_ms and flake_rate (in hundredths),
\* each present or not
ProbeChoices ==
    [ ping_ms : {Absent, 50, 200}, flake_rate : {Absent, 10, DefaultHeadedThreshold, 26, 50} ]

NoProbes == [ping_ms |-> Absent, flake_rate |-> Absent]
NoDecision == [agent |-> "none", tool |-> "none", params |-> [k \in {} |-> 0]]

\* a comparison that also fires at the threshold
UseHeadedAtThreshold(flake_rate, threshold) == flake_rate >= threshold

\* line 112: use_headed = flake_rate > headed_threshold
UseHeaded(flake_rate, threshold) == flake_rate > threshold

\* lines 103-119: the params of the decision
Params(env) ==
    IF ~policies.has_browser THEN [k \in {} |-> 0]
    ELSE LET use_headed ==
                 UseHeaded(Get(env.flake_rate, 0),
                           Get(policies.headed_on_flake_rate_gt, DefaultHeadedThreshold))
         IN [k \in {"timeout", "retries"} \cup (IF use_headed THEN {"headed"} ELSE {}) |->
                CASE k = "timeout" -> Get(policies.default_timeout_s, DefaultTimeoutS)
                  [] k = "retries" -> Get(policies.max_retries, DefaultMaxRetries)
                  [] k = "headed" -> TRUE]

\* PolicyEngine.decide(task_features, env_probes); task_features are logged
\* only, prefer_cached (line 93) is computed and logged only
Decide(env) ==
    /\ decision_count < MaxDecisions
    /\ decision_count' = decision_count + 1
    /\ probes' = env
    /\ decision' = [agent |-> "browser", tool |-> "playwright", params |-> Params(env)]
    /\ prevProbes' = probes
    /\ prevDecision' = decision
    /\ UNCHANGED policies

\* PolicyEngine(config_path) with the policies loaded
PolicyInit(pol) ==
    /\ policies = pol
    /\ decision_count = 0
    /\ probes = NoProbes
    /\ decision = NoDecision
    /\ prevProbes = NoProbes
    /\ prevDecision = NoDecision

\* an engine that fell back to the default policy
PolicyIdle == PolicyInit(DefaultPolicies)

(***************************************************************************)
(* Specifications                                                          *)
(***************************************************************************)
utilityVars == <<backoffVars, limiterVars>>
\* the scoped blocks of the store pool's callers, the policy engine, the
\* adaptive limiter, the count of pool shutdowns and the error context
closeVars == <<close_calls>>
supportVars == <<scopedVars, policyVars, adaptiveVars, closeVars, contextVars, runVars>>
toolkitVars == <<breakerVars, retryVars, utilityVars, appVars, supportVars>>
vars == <<poolVars, queueVars, toolkitVars>>
otherVars == <<breakerVars, retryVars, utilityVars, supportVars>>

\* the supporting components after construction
CloseIdle == close_calls = [db |-> 0, redis |-> 0]
SupportInit ==
    ScopedInit /\ PolicyIdle /\ AdaptiveIdle /\ CloseIdle /\ ContextInit /\ RunInit

\* every component after construction
Init ==
    PoolInit /\ QueueInit /\ BreakerIdle /\ RetryIdle /\ BackoffIdle /\ LimiterIdle
    /\ AppInit /\ SupportInit

\* callers of the store pool
PoolGet ==
    \E p \in Callers, ok \in BOOLEAN : GetConnection(p, ok) /\ UNCHANGED <<queueVars, toolkitVars>>
PoolReturn ==
    \E p \in Callers : \E c \in leases[p] :
        ReturnConnection(p, c) /\ UNCHANGED <<queueVars, toolkitVars>>
PoolBreak == \E c \in ConnIds : BreakConnection(c) /\ UNCHANGED <<queueVars, toolkitVars>>
PoolCloseAll == CloseAll /\ UNCHANGED <<queueVars, toolkitVars>>

\* get_connection and return_connection only
NextPoolNoClose == PoolGet \/ PoolReturn \/ PoolBreak
SpecPoolNoClose == Init /\ [][NextPoolNoClose]_vars

\* get_connection, return_connection and close_all
NextPool == PoolGet \/ PoolReturn \/ PoolBreak \/ PoolCloseAll
SpecPool == Init /\ [][NextPool]_vars

\* an idle connection goes stale
PoolStale == \E c \in ConnIds : StaleConnection(c) /\ UNCHANGED <<queueVars, toolkitVars>>

\* get_connection, return_connection and close_all by concurrent callers,
\* while idle connections go stale
NextLease == PoolGet \/ PoolReturn \/ PoolCloseAll \/ PoolStale
SpecLease == Init /\ [][NextLease]_vars

\* callers that use the store pool through 'with db_pool.connection()'
\* blocks only, one block at a time each, while connections may break
ScEnter ==
    \E p \in Callers, ok \in BOOLEAN :
        ScopedEnter(p, ok)
        /\ UNCHANGED <<queueVars, breakerVars, retryVars, utilityVars, appVars,
                       policyVars, adaptiveVars, closeVars, contextVars, runVars>>
ScBody ==
    \E p \in Callers, raises \in BOOLEAN, spoils \in BOOLEAN :
        ScopedBody(p, raises, spoils)
        /\ UNCHANGED <<queueVars, breakerVars, retryVars, utilityVars, appVars,
                       policyVars, adaptiveVars, closeVars, contextVars, runVars>>
ScExit ==
    \E p \in Callers :
        ScopedExit(p)
        /\ UNCHANGED <<queueVars, breakerVars, retryVars, utilityVars, appVars,
                       policyVars, adaptiveVars, closeVars, contextVars, runVars>>
NextScoped == ScEnter \/ ScBody \/ ScExit \/ PoolStale
SpecScoped == Init /\ [][NextScoped]_vars

\* producers and consumers of one channel
QEnqueue == \E m \in Tasks : Enqueue(m, "none") /\ UNCHANGED <<poolVars, toolkitVars>>
QProcessTask ==
    \E m \in Tasks : ProcessTask(m, "none") /\ UNCHANGED <<poolVars, toolkitVars>>
QDequeue == Dequeue("none") /\ UNCHANGED <<poolVars, toolkitVars>>
QWorkerPop == \E w \in Workers : WorkerPop(w) /\ UNCHANGED <<poolVars, toolkitVars>>
QWorkerPopFails == \E w \in Workers : WorkerPopFails(w) /\ UNCHANGED <<poolVars, toolkitVars>>
QWorkerWake == \E w \in Workers : WorkerWake(w) /\ UNCHANGED <<poolVars, toolkitVars>>
QWorkerEnter == \E w \in Workers : WorkerEnter(w) /\ UNCHANGED <<poolVars, toolkitVars>>
\* a worker processes its task, the agent and the store working
QWorkerProcess ==
    \E w \in Workers :
        WorkerProcess(w, "ok", TRUE, TRUE) /\ UNCHANGED <<poolVars, toolkitVars>>
QWorkerExit == \E w \in Workers : WorkerExit(w) /\ UNCHANGED <<poolVars, toolkitVars>>
QWorkerShutdown == \E w \in Workers : WorkerShutdown(w) /\ UNCHANGED toolkitVars
QRedisToggle == RedisToggle /\ UNCHANGED <<poolVars, toolkitVars>>

NextQueue ==
    \/ QEnqueue \/ QProcessTask \/ QDequeue
    \/ QWorkerEnter \/ QWorkerPop \/ QWorkerPopFails \/ QWorkerWake \/ QWorkerProcess
    \/ QRedisToggle
SpecQueue == Init /\ [][NextQueue]_vars

\* callers of Coordinator.process_task, with every fault of the push, next
\* to the consumers of the channel
CoordProcessTask ==
    \E m \in Tasks, fault \in PushFaults :
        ProcessTask(m, fault) /\ UNCHANGED <<poolVars, toolkitVars>>
NextCoordinator ==
    CoordProcessTask \/ QDequeue \/ QWorkerEnter \/ QWorkerPop \/ QRedisToggle
SpecCoordinator == Init /\ [][NextCoordinator]_vars

\* a worker whose agent and store can fail, fed by the Coordinator, next to
\* the task API
WWorkerProcess ==
    \E w \in Workers, a \in AgentBehaviours, ok \in BOOLEAN, fok \in BOOLEAN :
        WorkerProcess(w, a, ok, fok) /\ UNCHANGED <<poolVars, toolkitVars>>
ApiUpdateTask ==
    \E id \in TaskIds, st \in StatusValues :
        UpdateTask(id, st) /\ UNCHANGED <<poolVars, toolkitVars>>
NextWorker ==
    \/ QProcessTask \/ QWorkerEnter \/ QWorkerPop \/ QWorkerPopFails \/ QWorkerWake
    \/ WWorkerProcess \/ ApiUpdateTask \/ QRedisToggle
SpecWorker == Init /\ [][NextWorker]_vars

\* a worker's loop with a backend that goes away and comes back, the pops
\* that fail counted
WlFrame == UNCHANGED <<poolVars, breakerVars, retryVars, utilityVars, appVars,
                       scopedVars, policyVars, adaptiveVars, closeVars, contextVars,
                       callPc, enteredIn, healed>>
WlPopRaises ==
    \E w \in Workers, fault \in PopFaults :
        /\ failedPops[w] < MaxFailedPops
        /\ WorkerPopRaises(w, fault)
        /\ failedPops' = [failedPops EXCEPT ![w] = @ + 1]
        /\ WlFrame
WlWake ==
    \E w \in Workers :
        /\ WorkerWake(w)
        /\ failedPops' = [failedPops EXCEPT ![w] = 0]
        /\ WlFrame
WlPop ==
    \E w \in Workers :
        /\ WorkerPop(w)
        /\ failedPops' = [failedPops EXCEPT ![w] = 0]
        /\ WlFrame
NextWorkerLoop ==
    \/ QProcessTask \/ QWorkerEnter \/ WlPop \/ WlPopRaises \/ WlWake
    \/ QWorkerProcess \/ QRedisToggle
SpecWorkerLoop == Init /\ [][NextWorkerLoop]_vars

\* workers from their construction on: each takes its store connection,
\* then serves the tasks the Coordinator pushes; agent and store can fail
InitWorkerStore ==
    /\ PoolInit
    /\ QueueInitAt("new")
    /\ BreakerIdle
    /\ RetryIdle
    /\ BackoffIdle
    /\ LimiterIdle
    /\ AppInit
    /\ SupportInit
WsWorkerNew ==
    \E w \in Workers, ok \in BOOLEAN : WorkerNew(w, ok) /\ UNCHANGED toolkitVars
NextWorkerStore ==
    \/ WsWorkerNew \/ QProcessTask \/ QWorkerEnter \/ QWorkerPop \/ WWorkerProcess
    \/ QRedisToggle
SpecWorkerStore == InitWorkerStore /\ [][NextWorkerStore]_vars

\* the running application: callers of the Coordinator, the mq_processor
\* thread, the worker thread, healthy backends, and the global shutdown
AppProcessTask ==
    /\ appPc /= "exited"
    /\ \E m \in Tasks : ProcessTask(m, "none")
    /\ UNCHANGED <<poolVars, toolkitVars>>
AppMqEnter == MqEnter /\ UNCHANGED <<poolVars, queueVars, otherVars>>
AppMqDequeue == MqDequeue /\ UNCHANGED <<poolVars, otherVars>>
AppMqStop == MqStop /\ UNCHANGED <<poolVars, queueVars, otherVars>>
AppShutdownSignal == AppSignal /\ UNCHANGED <<poolVars, queueVars, otherVars>>
AppShutdownFinish == AppFinish /\ UNCHANGED otherVars
NextApp ==
    \/ AppProcessTask \/ AppMqEnter \/ AppMqDequeue \/ AppMqStop
    \/ QWorkerEnter \/ QWorkerPop \/ QWorkerProcess
    \/ AppShutdownSignal \/ AppShutdownFinish
SpecApp == Init /\ [][NextApp]_vars

\* both pools, their callers and their shutdown: close_all called directly
\* or by Worker.shutdown, after which the worker's loop ends
SdRedisGet == RedisGetConnection /\ UNCHANGED <<poolVars, toolkitVars>>
SdRedisClose == RedisClose /\ UNCHANGED <<poolVars, toolkitVars>>
NextShutdown ==
    \/ PoolGet \/ PoolReturn \/ PoolCloseAll
    \/ SdRedisGet \/ SdRedisClose \/ QRedisToggle
    \/ QWorkerShutdown \/ QWorkerExit
SpecShutdown == Init /\ [][NextShutdown]_vars

\* both pools with their callers and repeated shutdowns, the close_all calls
\* counted
ClGet ==
    \E p \in Callers, ok \in BOOLEAN :
        GetConnection(p, ok)
        /\ UNCHANGED <<queueVars, breakerVars, retryVars, utilityVars, appVars, supportVars>>
ClReturn ==
    \E p \in Callers : \E c \in leases[p] :
        ReturnConnection(p, c)
        /\ UNCHANGED <<queueVars, breakerVars, retryVars, utilityVars, appVars, supportVars>>
ClCloseAll ==
    /\ close_calls.db < MaxCloses
    /\ CloseAll
    /\ close_calls' = [close_calls EXCEPT !.db = @ + 1]
    /\ UNCHANGED <<queueVars, breakerVars, retryVars, utilityVars, appVars,
                   scopedVars, policyVars, adaptiveVars, contextVars, runVars>>
ClRedisGet ==
    RedisGetConnection
    /\ UNCHANGED <<poolVars, breakerVars, retryVars, utilityVars, appVars, supportVars>>
ClRedisClose ==
    /\ close_calls.redis < MaxCloses
    /\ RedisClose
    /\ close_calls' = [close_calls EXCEPT !.redis = @ + 1]
    /\ UNCHANGED <<poolVars, breakerVars, retryVars, utilityVars, appVars,
                   scopedVars, policyVars, adaptiveVars, contextVars, runVars>>
NextClose == ClGet \/ ClReturn \/ ClCloseAll \/ ClRedisGet \/ ClRedisClose
SpecClose == Init /\ [][NextClose]_vars

\* a thread that sets, updates and clears the error context and enters and
\* leaves error_context scopes, and the other threads' updates
CxFrame == UNCHANGED <<poolVars, queueVars, breakerVars, retryVars, utilityVars, appVars,
                       scopedVars, policyVars, adaptiveVars, closeVars, runVars>>
CxSet == \E t \in ContextThreads, c \in SetChoices : SetContext(t, c) /\ CxFrame
CxUpdate == \E t \in ContextThreads, u \in UpdateChoices : UpdateContext(t, u) /\ CxFrame
CxUpdateElsewhere == \E u \in UpdateChoices : UpdateContextElsewhere(u) /\ CxFrame
CxClear == \E t \in ContextThreads : ClearContext(t) /\ CxFrame
CxEnter ==
    \E t \in ContextThreads, request_id \in RequestIds \cup {"none"}, kwargs \in KwargChoices :
        ErrorContextEnter(t, request_id, kwargs) /\ CxFrame
CxExit == \E t \in ContextThreads, raised \in BOOLEAN : ErrorContextExit(t, raised) /\ CxFrame
NextContext == CxSet \/ CxUpdate \/ CxUpdateElsewhere \/ CxClear \/ CxEnter \/ CxExit
SpecContext == Init /\ [][NextContext]_vars

\* callers of MessageQueue.enqueue and dequeue with every fault of the
\* backend, while the server comes and goes and the pool is shut down
CallEnqueue ==
    \E m \in Tasks, fault \in EnqueueFaults :
        Enqueue(m, fault) /\ UNCHANGED <<poolVars, toolkitVars>>
CallDequeue ==
    \E fault \in DequeueFaults : Dequeue(fault) /\ UNCHANGED <<poolVars, toolkitVars>>
NextMq == CallEnqueue \/ CallDequeue \/ QRedisToggle \/ SdRedisClose
SpecMq == Init /\ [][NextMq]_vars

\* an engine with any of the policies, asked for decisions
InitPolicy ==
    /\ PoolInit
    /\ QueueInit
    /\ BreakerIdle
    /\ RetryIdle
    /\ BackoffIdle
    /\ LimiterIdle
    /\ AppInit
    /\ ScopedInit
    /\ \E pol \in PolicyChoices : PolicyInit(pol)
    /\ AdaptiveIdle
    /\ CloseIdle
    /\ ContextInit
    /\ RunInit
PolicyDecide ==
    \E env \in ProbeChoices :
        Decide(env)
        /\ UNCHANGED <<poolVars, queueVars, breakerVars, retryVars, utilityVars, appVars,
                       scopedVars, adaptiveVars, closeVars, contextVars, runVars>>
NextPolicy == PolicyDecide
SpecPolicy == InitPolicy /\ [][NextPolicy]_vars

\* a breaker with any small configuration, its callers and the clock
InitBreaker ==
    /\ PoolInit
    /\ QueueInit
    /\ \E th \in 1..MaxThreshold, rt \in 0..MaxTimeout : CircuitBreakerInit(th, rt)
    /\ RetryIdle
    /\ BackoffIdle
    /\ LimiterIdle
    /\ AppInit
    /\ SupportInit
BreakerCall ==
    \E f \in FuncBehaviours, d \in 0..1 :
        Call(f, d) /\ UNCHANGED <<poolVars, queueVars, retryVars, utilityVars, appVars, supportVars>>
BreakerTick == Tick /\ UNCHANGED <<poolVars, queueVars, retryVars, utilityVars, appVars, supportVars>>
NextBreaker == BreakerCall \/ BreakerTick
SpecBreaker == InitBreaker /\ [][NextBreaker]_vars

\* the same breakers with several threads inside call at once
ThFrame == UNCHANGED <<poolVars, queueVars, retryVars, utilityVars, appVars,
                       scopedVars, policyVars, adaptiveVars, closeVars, contextVars,
                       failedPops, healed>>
ThCallTest == \E t \in BreakerThreads : CallTest(t) /\ ThFrame
ThCallHalfOpen == \E t \in BreakerThreads : CallHalfOpen(t) /\ ThFrame
ThCallInvoke == \E t \in BreakerThreads : CallInvoke(t) /\ ThFrame
ThCallFinish == \E t \in BreakerThreads, f \in FuncBehaviours : CallFinish(t, f) /\ ThFrame
NextBreakerThreads ==
    ThCallTest \/ ThCallHalfOpen \/ ThCallInvoke \/ ThCallFinish \/ BreakerTick
SpecBreakerThreads == InitBreaker /\ [][NextBreakerThreads]_vars

\* the breaker of a function that fails for a while and then succeeds on
\* every call: calls keep arriving and the clock keeps advancing
LvFrame == UNCHANGED <<poolVars, queueVars, retryVars, utilityVars, appVars, scopedVars,
                       policyVars, adaptiveVars, closeVars, contextVars, callPc, enteredIn,
                       failedPops>>
\* a call while func may still fail
LvEarlyCall ==
    /\ healed = "no"
    /\ \E f \in FuncBehaviours, d \in 0..1 : Call(f, d)
    /\ UNCHANGED healed
    /\ LvFrame
\* func stops failing, early enough for the bounded clock to cover the longest
\* recovery timeout
LvHeal ==
    /\ healed = "no"
    /\ now + MaxTimeout <= MaxTime
    /\ healed' = state
    /\ UNCHANGED breakerVars
    /\ LvFrame
\* a call once func succeeds every time
LvCall ==
    /\ healed /= "no"
    /\ \E d \in 0..1 : Invoke("ok", d)
    /\ UNCHANGED <<breakerCalls, healed>>
    /\ LvFrame
LvTick == Tick /\ UNCHANGED healed /\ LvFrame
NextBreakerRecovery == LvEarlyCall \/ LvHeal \/ LvCall \/ LvTick
SpecBreakerRecovery ==
    /\ InitBreaker
    /\ [][NextBreakerRecovery]_vars
    /\ WF_vars(LvCall)
    /\ WF_vars(LvTick)

\* one call of a wrapper with 1 <= max_attempts <= MaxAttempts, with or
\* without an on_retry callback, around a function that may return or raise
\* any of the error classes at each invocation
InitRetry ==
    /\ PoolInit
    /\ QueueInit
    /\ BreakerIdle
    /\ \E n \in 1..MaxAttempts, cb \in BOOLEAN : RetryInit(n, cb)
    /\ BackoffIdle
    /\ LimiterIdle
    /\ AppInit
    /\ SupportInit
RetryCall ==
    \E outcome \in ErrorClasses \cup {"ok"} :
        RetryInvoke(outcome) /\ UNCHANGED <<poolVars, queueVars, breakerVars, utilityVars, appVars, supportVars>>
RetrySleep == RetrySleepDone /\ UNCHANGED <<poolVars, queueVars, breakerVars, utilityVars, appVars, supportVars>>
NextRetry == RetryCall \/ RetrySleep
SpecRetry == InitRetry /\ [][NextRetry]_vars

\* retry_with_backoff with any max_attempts, zero and negative included
InitRetryAny ==
    /\ PoolInit
    /\ QueueInit
    /\ BreakerIdle
    /\ \E n \in (1 - MaxNonPositive)..MaxAttempts, cb \in BOOLEAN : RetryInit(n, cb)
    /\ BackoffIdle
    /\ LimiterIdle
    /\ AppInit
    /\ SupportInit
RetryGiveUp == RetryExhausted /\ UNCHANGED <<poolVars, queueVars, breakerVars, utilityVars, appVars, supportVars>>
NextRetryAny == RetryCall \/ RetrySleep \/ RetryGiveUp
SpecRetryAny == InitRetryAny /\ [][NextRetryAny]_vars

\* a strategy with any small configuration, asked for delays
InitBackoff ==
    /\ PoolInit
    /\ QueueInit
    /\ BreakerIdle
    /\ RetryIdle
    /\ \E b \in 1..MaxBaseDelay, c \in 1..MaxDelayCap, m \in 1..MaxMultiplier,
          j \in BOOLEAN : BackoffInit(b, c, m, j)
    /\ LimiterIdle
    /\ AppInit
    /\ SupportInit
BackoffGetDelay ==
    \E a \in 1..MaxDelayAttempt, r \in RandomHalves :
        GetDelay(a, r)
        /\ UNCHANGED <<poolVars, queueVars, breakerVars, retryVars, limiterVars, appVars,
                      supportVars>>
NextBackoff == BackoffGetDelay
SpecBackoff == InitBackoff /\ [][NextBackoff]_vars

\* the window sizes a limiter is built with, in seconds
WindowSizes == {1, 30, DefaultWindowSize}

\* a limiter with small ceilings and any of the window sizes, its callers
\* (serialised by self.lock) and the clock
InitLimiter ==
    /\ PoolInit
    /\ QueueInit
    /\ BreakerIdle
    /\ RetryIdle
    /\ BackoffIdle
    /\ \E s \in 1..MaxPerSecond, m \in 1..MaxPerMinute, w \in WindowSizes :
          LimiterInit(s, m, w)
    /\ AppInit
    /\ SupportInit
LimiterIsAllowed ==
    \E e \in ErrorTypes :
        IsAllowed(e)
        /\ UNCHANGED <<poolVars, queueVars, breakerVars, retryVars, backoffVars,
                       appVars, supportVars>>
LimiterAdvance ==
    \E d \in TimeSteps :
        Advance(d)
        /\ UNCHANGED <<poolVars, queueVars, breakerVars, retryVars, backoffVars,
                       appVars, supportVars>>
NextLimiter == LimiterIsAllowed \/ LimiterAdvance
SpecLimiter == InitLimiter /\ [][NextLimiter]_vars

\* the ceilings adaptive limiters are built with: the initial ones, and
\* the explicit current ones or none
InitialPerSecond == {DefaultMaxErrorsPerSecond, 20}
InitialPerMinute == {12, DefaultMaxErrorsPerMinute}
GivenPerSecond == {NotGiven, 5, 11}
GivenPerMinute == {NotGiven, 10}

\* an adaptive limiter with any of these configurations, its callers
\* (serialised by self.lock) and the clock
InitAdaptive ==
    /\ PoolInit
    /\ QueueInit
    /\ BreakerIdle
    /\ RetryIdle
    /\ BackoffIdle
    /\ AppInit
    /\ ScopedInit
    /\ PolicyIdle
    /\ CloseIdle
    /\ ContextInit
    /\ RunInit
    /\ \E is \in InitialPerSecond, im \in InitialPerMinute,
          s \in GivenPerSecond, m \in GivenPerMinute :
            AdaptiveInit(is, im, s, m, DefaultAdjustmentThreshold, DefaultAdjustmentFactor)
AdaptiveCall ==
    AdaptiveIsAllowed
    /\ UNCHANGED <<poolVars, queueVars, breakerVars, retryVars, backoffVars, appVars,
                   scopedVars, policyVars, closeVars, contextVars, runVars>>
NextAdaptive == AdaptiveCall \/ LimiterAdvance
SpecAdaptive == InitAdaptive /\ [][NextAdaptive]_vars

(***************************************************************************)
(* C1: the number of connections handed out and not yet returned never     *)
(* exceeds max_connections, for every sequence of get_connection and       *)
(* return_connection calls.                                                *)
(***************************************************************************)
PoolBound == in_use_count <= MaxConnections

\* the pool is exhausted: max_connections are held and a further
\* get_connection has been refused
PoolBoundWitness ==
    /\ in_use_count = MaxConnections
    /\ dbResult = "DatabaseError"
    /\ connection_count = MaxConnections

(***************************************************************************)
(* C2: idle_count + in_use_count <= max_connections in every reachable     *)
(* state, also when close_all is called while connections are held.        *)
(***************************************************************************)
PoolTotalBound == idle_count + in_use_count <= MaxConnections

\* the sequence of the `item` fields of a history
ItemsOf(h) == [i \in 1..Len(h) |-> h[i].item]

(***************************************************************************)
(* C3: queue FIFO. When n items were pushed onto the channel and then      *)
(* popped with no push after the first pop, the items come out in exactly  *)
(* the order they were pushed: the pops return a prefix of the pushes, and *)
(* after n pops exactly the sequence pushed.                               *)
(***************************************************************************)
QueueFIFO ==
    ~interleaved =>
        /\ Len(popped) <= Len(pushed)
        /\ ItemsOf(popped) = SubSeq(ItemsOf(pushed), 1, Len(popped))
        /\ Len(popped) = Len(pushed) => ItemsOf(popped) = ItemsOf(pushed)

\* MaxPushed items, not all alike, were pushed and then all popped
QueueFIFOWitness ==
    /\ ~interleaved
    /\ Len(pushed) = MaxPushed
    /\ Len(popped) = MaxPushed
    /\ pushed[1].item /= pushed[2].item
    /\ \E i \in 1..Len(popped) : popped[i].by = "worker"
    /\ \E i \in 1..Len(popped) : popped[i].by = "dequeue"

(***************************************************************************)
(* C4: destructive pop. Each pushed item is returned by at most one pop,   *)
(* whichever consumers (workers, dequeue callers) pop concurrently.        *)
(***************************************************************************)
NoDuplicateDelivery ==
    \A i, j \in 1..Len(popped) : popped[i].uid = popped[j].uid => i = j

\* a worker and a dequeue caller have each popped an item of the channel
NoDuplicateDeliveryWitness ==
    /\ Len(popped) >= 2
    /\ \E i, j \in 1..Len(popped) : popped[i].by /= popped[j].by

\* a step that is one call of CircuitBreaker.call
IsBreakerCall == breakerCalls' = breakerCalls + 1

(***************************************************************************)
(* C5: a call moves the breaker from CLOSED to OPEN exactly when the       *)
(* number of expected failures of the wrapped function since its last      *)
(* success reaches failure_threshold; a success resets that number.        *)
(***************************************************************************)
BreakerOpensAtThreshold ==
    [][ (IsBreakerCall /\ state = "CLOSED") =>
            ( (state' = "OPEN") <=>
              (lastCall'.func = "expected" /\ consecutive' = failure_threshold) )
      ]_vars

\* failures, a success, then failure_threshold failures in a row have
\* opened a breaker whose threshold is more than one
BreakerOpensAtThresholdWitness ==
    /\ state = "OPEN"
    /\ failure_threshold >= 2
    /\ consecutive = failure_threshold
    /\ breakerCalls > failure_threshold + 1
    /\ lastCall.func = "expected"

(***************************************************************************)
(* C6: while the breaker is OPEN and recovery_timeout has not elapsed      *)
(* since the last failure, a call raises CircuitBreakerError, does not     *)
(* invoke the wrapped function and leaves state, failure_count and         *)
(* last_failure_time unchanged.                                            *)
(***************************************************************************)
OpenRejects ==
    [][ (IsBreakerCall /\ state = "OPEN"
           /\ now - last_failure_time < recovery_timeout) =>
            /\ lastCall' = [func |-> "none", outcome |-> "CircuitBreakerError"]
            /\ UNCHANGED <<state, failure_count, last_failure_time>>
      ]_vars

\* a call has been rejected by an open breaker
OpenRejectsWitness ==
    /\ state = "OPEN"
    /\ lastCall.outcome = "CircuitBreakerError"
    /\ now - last_failure_time < recovery_timeout

(***************************************************************************)
(* C7: a call made while the breaker is OPEN, once recovery_timeout has    *)
(* elapsed since the last failure, is let through as the trial call        *)
(* (OPEN to HALF_OPEN); if the trial succeeds the breaker ends CLOSED      *)
(* with failure_count = 0 and the result is returned.                      *)
(***************************************************************************)
TrialAfterTimeout ==
    [][ (IsBreakerCall /\ state = "OPEN" /\ last_failure_time /= 0
           /\ now - last_failure_time >= recovery_timeout) =>
            /\ lastCall'.func /= "none"
            /\ lastCall'.func = "ok" =>
                   /\ state' = "CLOSED"
                   /\ failure_count' = 0
                   /\ lastCall'.outcome = "returned"
            /\ lastCall'.func = "other" => state' = "HALF_OPEN"
      ]_vars

\* a breaker with a positive recovery_timeout went OPEN and a successful
\* trial call closed it exactly when the timeout had elapsed
TrialAfterTimeoutWitness ==
    /\ state = "CLOSED"
    /\ recovery_timeout > 0
    /\ last_failure_time /= 0
    /\ now - last_failure_time = recovery_timeout
    /\ consecutive = 0
    /\ lastCall.outcome = "returned"
    /\ breakerCalls = failure_threshold + 1

(***************************************************************************)
(* C8: a trial call in HALF_OPEN that raises an expected exception puts    *)
(* the breaker back to OPEN whatever failure_count is, and restarts the    *)
(* recovery wait: last_failure_time is the time of that failure, and       *)
(* calls are rejected until recovery_timeout has elapsed since it.         *)
(***************************************************************************)
FailedTrialReopens ==
    [][ /\ (IsBreakerCall /\ lastCall'.func = "expected"
              /\ (state = "HALF_OPEN"
                    \/ (state = "OPEN" /\ last_failure_time /= 0
                          /\ now - last_failure_time >= recovery_timeout))) =>
               /\ state' = "OPEN"
               /\ last_failure_time' = now'
               /\ lastCall'.outcome = "raised_expected"
        /\ (IsBreakerCall /\ state = "OPEN" /\ lastCall.func = "expected"
              /\ now - last_failure_time < recovery_timeout) =>
               /\ lastCall'.func = "none"
               /\ state' = "OPEN"
      ]_vars

\* a trial call failed after the first opening, at a later time, and the
\* next call, made before the new wait was over, was rejected
FailedTrialReopensWitness ==
    /\ state = "OPEN"
    /\ recovery_timeout > 0
    /\ failure_count > failure_threshold
    /\ lastCall.outcome = "CircuitBreakerError"
    /\ now - last_failure_time < recovery_timeout
    /\ last_failure_time > recovery_timeout + 1

\* ValidationError and ConfigurationError of the error taxonomy: the
\* classes of core.exceptions and those of core.error_recovery
TaxonomyPermanent ==
    { "exceptions.ValidationError", "exceptions.ConfigurationError",
      "error_recovery.ValidationError", "error_recovery.ConfigurationError" }

(***************************************************************************)
(* C9: permanent errors are never retried. should_retry is False, at the   *)
(* attempt it is asked for, for every ValidationError and                  *)
(* ConfigurationError of the taxonomy, so an operation whose first call    *)
(* raises one of them is invoked once and the error re-raised; should_retry*)
(* is True for DatabaseError, RedisError, connection and timeout errors.   *)
(***************************************************************************)
PermanentNeverRetried ==
    /\ last_error \in TaxonomyPermanent => ~ShouldRetry(last_error, attempt)
    /\ (last_error \in TaxonomyPermanent /\ invocations = 1) =>
           (retryPc = "raised" /\ retryRaised = last_error)
    /\ last_error \in {"exceptions.DatabaseError", "exceptions.RedisError",
                       "ConnectionError", "TimeoutError"} =>
           ShouldRetry(last_error, attempt)

RECURSIVE Power(_, _)
Power(m, e) == IF e = 0 THEN 1 ELSE m * Power(m, e - 1)

(***************************************************************************)
(* C11: with jitter disabled, get_delay(attempt) returns                   *)
(* min(base_delay * multiplier^(attempt-1), max_delay) for every           *)
(* attempt >= 1, so it never exceeds max_delay.                            *)
(***************************************************************************)
BackoffFormula ==
    (delayAttempt >= 1 /\ ~jitter) =>
        /\ delayRaised = "None"
        /\ delay = Quarters * Min(base_delay * Power(multiplier, delayAttempt - 1),
                                  max_delay)
        /\ delay <= Quarters * max_delay

\* the calls before call i of the log that fell in the same whole second
EarlierInSecond(i) ==
    {j \in 1..(i - 1) : SecondOf(limiterLog[j].t) = SecondOf(limiterLog[i].t)}

\* the allowed calls before call i of the log in the same whole minute
AllowedEarlierInMinute(i) ==
    {j \in 1..(i - 1) : /\ limiterLog[j].allowed
                        /\ MinuteOf(limiterLog[j].t) = MinuteOf(limiterLog[i].t)}

(***************************************************************************)
(* C12: per-second ceiling. Of the is_allowed calls whose time falls in    *)
(* the same whole second, exactly the first max_errors_per_second return   *)
(* True and every later one returns False, whatever error_type they pass,  *)
(* as long as the per-minute ceiling is not reached.                       *)
(***************************************************************************)
PerSecondCeiling ==
    \A i \in 1..Len(limiterLog) :
        Cardinality(AllowedEarlierInMinute(i)) < max_errors_per_minute =>
            (limiterLog[i].allowed <=>
                Cardinality(EarlierInSecond(i)) < max_errors_per_second)

\* a limiter with a per-second ceiling of two allowed two calls of
\* different error types and refused the third of the same second
PerSecondCeilingWitness ==
    /\ max_errors_per_second = 2
    /\ max_errors_per_minute > 2
    /\ Len(limiterLog) >= 3
    /\ \E i \in 3..Len(limiterLog) :
          /\ EarlierInSecond(i) = {i - 2, i - 1}
          /\ limiterLog[i - 2].allowed /\ limiterLog[i - 1].allowed
          /\ ~limiterLog[i].allowed
          /\ limiterLog[i - 2].error_type /= limiterLog[i - 1].error_type
          /\ limiterLog[i].t > limiterLog[i - 2].t

\* the allowed calls of the log whose time falls in whole minute m
AllowedInMinute(m) ==
    {i \in 1..Len(limiterLog) : limiterLog[i].allowed /\ MinuteOf(limiterLog[i].t) = m}

(***************************************************************************)
(* C13: per-minute ceiling. For every window_size_seconds, also below 60,  *)
(* the number of is_allowed calls that return True and whose time falls in *)
(* the same whole minute never exceeds max_errors_per_minute.              *)
(***************************************************************************)
PerMinuteCeiling ==
    \A m \in Minutes : Cardinality(AllowedInMinute(m)) <= max_errors_per_minute

FailureIsolation ==
    \A w \in Workers :
        workerLast[w].raised =>
            /\ workerLast[w].wrote = "failed"
            /\ workerPc[w] /= "stopped"

(***************************************************************************)
(* C16: the status a worker writes to the store for a dispatched task is   *)
(* 'completed' or 'failed', whatever the agent reported or raised.         *)
(***************************************************************************)
WorkerWritesTerminal ==
    \A w \in Workers : workerLast[w].wrote \in {"nothing", "completed", "failed"}

\* the moves of tasks.status the lifecycle allows
ForwardMoves ==
    { <<"pending", "enqueued">>, <<"enqueued", "running">>,
      <<"running", "completed">>, <<"running", "failed">> }

(***************************************************************************)
(* C17: a task's status in the store only moves forward along pending,     *)
(* enqueued, running, then completed or failed: every write that changes   *)
(* it makes one of these moves, so completed and failed are entered from   *)
(* running only and never left.                                            *)
(***************************************************************************)
StatusForward ==
    [][ \A i \in TaskIds :
          taskStatus'[i] /= taskStatus[i] =>
              <<taskStatus[i], taskStatus'[i]>> \in ForwardMoves
      ]_vars

(***************************************************************************)
(* C18: no enqueued task is silently dropped. With all services started    *)
(* and healthy backends, a task Coordinator.process_task returned          *)
(* 'enqueued' for is taken from the task queue by a Worker only (which     *)
(* then writes its status); no other component consumes it.                *)
(***************************************************************************)
NoSilentDrop ==
    \A i \in 1..Len(popped) : popped[i].by = "worker"

(***************************************************************************)
(* C19: cooperative shutdown. Once ApplicationManager.shutdown has         *)
(* signalled, a Worker that comes to its loop test observes the flag: it   *)
(* does not go into another dequeue.                                       *)
(***************************************************************************)
CooperativeShutdown ==
    [][ \A w \in Workers :
          (appShutdown /\ workerPc[w] = "loop") => workerPc'[w] /= "brpop"
      ]_vars

(***************************************************************************)
(* C20: after a pool has been shut down with close_all, every later        *)
(* acquire on it fails with a pool-shut-down error and hands out no        *)
(* connection, for the Redis pool and for the store pool.                  *)
(***************************************************************************)
ClosedPoolRejects ==
    /\ redis_shutdown => redisResult \in {"closed", "REDIS_POOL_SHUTDOWN"}
    /\ dbClosed => dbResult \in {"closed", "returned"}

\* the callers that are inside a block
InBlock == {p \in Callers : scopedPc[p] /= "outside"}

(***************************************************************************)
(* C21: scoped acquisition releases on every exit path. When a             *)
(* 'with db_pool.connection()' block has ended, by normal return or by an  *)
(* exception of the body, its caller holds no connection, the pool's       *)
(* in-use count is again what the blocks still open account for, and the   *)
(* body's exception, if any, has reached the caller.                       *)
(***************************************************************************)
ScopedRelease ==
    /\ \A p \in Callers \ InBlock : leases[p] = {}
    /\ active_connections = Cardinality(InBlock)
    /\ in_use_count = Cardinality(InBlock)
    /\ \A p \in Callers \ InBlock :
          /\ scopedBodyRaised[p] => scopedOutcome[p] = "BodyError"
          /\ scopedOutcome[p] = "BodyError" => scopedBodyRaised[p]

\* every caller has left a block, one by an exception of its body and one
\* by normal return; a connection is idle again and one was discarded
ScopedReleaseWitness ==
    /\ InBlock = {}
    /\ \E p, q \in Callers :
          /\ scopedOutcome[p] = "BodyError"
          /\ scopedOutcome[q] = "returned"
    /\ idle_count >= 1
    /\ \E c \in ConnIds : connState[c] = "closed"

\* the connections of the idle list
Idle == {connections[i] : i \in 1..Len(connections)}

(***************************************************************************)
(* C22: exclusive lease. For every interleaving of get_connection,         *)
(* return_connection (of a connection the caller holds) and close_all by   *)
(* concurrent callers, no connection is at the same time in the idle list  *)
(* and held by a caller, none is handed to two callers at once, and none   *)
(* is twice in the idle list.                                              *)
(***************************************************************************)
ExclusiveLease ==
    /\ Idle \cap InUse = {}
    /\ \A p, q \in Callers : p /= q => leases[p] \cap leases[q] = {}
    /\ Cardinality(Idle) = Len(connections)

\* after a close_all every caller holds a connection while another
\* connection, returned by one of them, is idle
ExclusiveLeaseWitness ==
    /\ dbClosed
    /\ idle_count >= 1
    /\ \A p \in Callers : leases[p] /= {}
    /\ dbResult = "returned"

(***************************************************************************)
(* C23: a store connection is held only for the duration of a store        *)
(* operation. After a Worker has finished processing a task (status        *)
(* written or failure handled) and is back at its loop test, it holds no   *)
(* store connection.                                                       *)
(***************************************************************************)
WorkerHoldsNoConnection ==
    \A w \in Workers :
        (workerPc[w] = "loop" /\ workerLast[w].id /= 0) =>
            leases[WorkerCaller(w)] = {}

DequeueContract ==
    [][ dequeue_count' = dequeue_count + 1 =>
          /\ channel = <<>> => (mqResult'.ret = "None" /\ channel' = channel)
          /\ mqResult'.ret = "item" =>
                (/\ channel /= <<>>
                 /\ mqResult'.item = Loads(RightMost(channel).wire)
                 /\ channel' = ListAfterPop(channel))
      ]_vars

(***************************************************************************)
(* C26: an exception of the wrapped function that does not match           *)
(* expected_exception propagates to the caller and leaves state,           *)
(* failure_count and last_failure_time exactly as they were before the     *)
(* call, for a call made in state CLOSED and for one made in HALF_OPEN.    *)
(***************************************************************************)
UnexpectedPropagates ==
    [][ (IsBreakerCall /\ state \in {"CLOSED", "HALF_OPEN"}
           /\ lastCall'.func = "other") =>
            /\ lastCall'.outcome = "raised_other"
            /\ UNCHANGED <<state, failure_count, last_failure_time>>
      ]_vars

\* a call made while the breaker was HALF_OPEN, with failures on its count,
\* ended with an unexpected exception and the breaker is HALF_OPEN still
UnexpectedPropagatesWitness ==
    /\ calledIn = "HALF_OPEN"
    /\ state = "HALF_OPEN"
    /\ lastCall = [func |-> "other", outcome |-> "raised_other"]
    /\ failure_count >= failure_threshold
    /\ last_failure_time /= 0

\* the flake rate and the threshold the last decide compared
FlakeRate == IF probes.flake_rate = Absent THEN 0 ELSE probes.flake_rate
HeadedThreshold ==
    IF policies.headed_on_flake_rate_gt = Absent THEN DefaultHeadedThreshold
    ELSE policies.headed_on_flake_rate_gt

(***************************************************************************)
(* C27: PolicyEngine.decide returns agent, tool and a params map whose     *)
(* timeout and retries come from the selected agent's policy block (15 and *)
(* 2 under the default policy); params contains headed=true if and only if *)
(* env_probes.flake_rate is strictly greater than the agent's              *)
(* headed_on_flake_rate_gt threshold; identical inputs and policy give the *)
(* identical decision.                                                     *)
(***************************************************************************)
DecideContract ==
    decision_count > 0 =>
        /\ decision.agent = "browser"
        /\ decision.tool = "playwright"
        /\ policies.has_browser =>
              /\ {"timeout", "retries"} \subseteq DOMAIN decision.params
              /\ DOMAIN decision.params \subseteq {"timeout", "retries", "headed"}
              /\ policies.default_timeout_s /= Absent =>
                    decision.params["timeout"] = policies.default_timeout_s
              /\ policies.max_retries /= Absent =>
                    decision.params["retries"] = policies.max_retries
              /\ policies = DefaultPolicies =>
                    (decision.params["timeout"] = 15 /\ decision.params["retries"] = 2)
              /\ "headed" \in DOMAIN decision.params <=> FlakeRate > HeadedThreshold
              /\ "headed" \in DOMAIN decision.params => decision.params["headed"] = TRUE
        /\ (decision_count > 1 /\ probes = prevProbes) => decision = prevDecision

\* under the default policy, a decide with the flake rate at the threshold
\* gave no headed key and the next one, with flake rate 0.5, gave headed
DecideContractWitness ==
    /\ policies = DefaultPolicies
    /\ decision_count = 2
    /\ prevProbes.flake_rate = DefaultHeadedThreshold
    /\ "headed" \notin DOMAIN prevDecision.params
    /\ probes.flake_rate = 50
    /\ "headed" \in DOMAIN decision.params
    /\ decision.params["timeout"] = 15

CloseAllIdempotent ==
    [][/\ (close_calls.db >= 1 /\ close_calls'.db > close_calls.db) =>
            /\ dbResult' = "closed"
            /\ dbClosed'
            /\ connections' = <<>>
            /\ connection_count' = 0
            /\ dbResult = "closed" => poolVars' = poolVars
       /\ (close_calls.redis >= 1 /\ close_calls'.redis > close_calls.redis) =>
            /\ redis_shutdown'
            /\ redisResult' \in {"closed", "REDIS_POOL_SHUTDOWN"}
            /\ queueVars' = queueVars]_vars

\* close_all has been called twice on each pool, the second call on the
\* store pool after a connection had come back to the idle list
CloseAllIdempotentWitness ==
    /\ close_calls = [db |-> MaxCloses, redis |-> MaxCloses]
    /\ dbResult = "closed"
    /\ connections = <<>>
    /\ \E c \in ConnIds : connState[c] = "closed" /\ c \notin InUse
    /\ redis_shutdown

(***************************************************************************)
(* C30: on leaving an error_context scope, by normal exit or by an         *)
(* exception in the body, the thread's current error context equals what   *)
(* it was immediately before the scope was entered, and the scope left is  *)
(* the innermost one: nested scopes restore their outer contexts in        *)
(* last-in-first-out order.                                                *)
(***************************************************************************)
ContextRestored ==
    [][\A t \in ContextThreads :
          Len(context_frames'[t]) < Len(context_frames[t]) =>
              LET depth == Len(context_frames[t]) IN
              /\ context_frames'[t] = SubSeq(context_frames[t], 1, depth - 1)
              /\ CurrentOf(context_binding'[t], default_context') =
                     context_frames[t][depth].before]_vars

\* a thread has left an inner scope through an exception and is back in the
\* outer scope's context, while the outer scope still holds a different
\* context to restore and the shared default dict has been written
ContextRestoredWitness ==
    \E t \in ContextThreads :
        /\ last_exit.how = "raised"
        /\ last_exit.depth = MaxDepth
        /\ Len(context_frames[t]) = MaxDepth - 1
        /\ GetContext(t) /= EmptyContext
        /\ context_frames[t][1].before /= GetContext(t)
        /\ default_context /= EmptyContext

(***************************************************************************)
(* C31, as stated: when get_connection fails with DatabaseError,           *)
(* connection_count and the idle list are the same as before the call.     *)
(***************************************************************************)
FailedGetKeepsPool ==
    [][dbResult' = "DatabaseError" =>
          /\ connection_count' = connection_count
          /\ connections' = connections]_vars

(***************************************************************************)
(* C31, amended: a failed get_connection consumes no pool slot.  It hands  *)
(* out nothing and leaves the number of slots in use, connection_count     *)
(* minus the idle connections, as it was; connection_count and the idle    *)
(* list are the same as before the call, except that a broken connection   *)
(* found at the end of the idle list has been dropped from both.           *)
(***************************************************************************)
FailedGetKeepsSlots ==
    [][dbResult' = "DatabaseError" =>
          /\ leases' = leases
          /\ connection_count' - Len(connections') = connection_count - Len(connections)
          /\ \/ /\ connection_count' = connection_count
                /\ connections' = connections
             \/ /\ connections /= <<>>
                /\ ~SelectOne(connections[Len(connections)])
                /\ connections' = IdleAfterPop(connections)
                /\ connection_count' = connection_count - 1]_vars

\* a get_connection has failed after dropping a broken idle connection,
\* and the pool has room for a later acquire
FailedGetKeepsSlotsWitness ==
    /\ dbResult = "DatabaseError"
    /\ connection_count < MaxConnections
    /\ \E c \in ConnIds :
          /\ connState[c] = "broken"
          /\ c \notin InUse
          /\ \A i \in 1..Len(connections) : connections[i] /= c

(***************************************************************************)
(* C32: single trial call.  When several threads call CircuitBreaker.call  *)
(* on a breaker that is OPEN with recovery_timeout elapsed, at most one    *)
(* invocation of the wrapped function is let through as the HALF_OPEN      *)
(* trial before the breaker settles in CLOSED or OPEN: at no time are two  *)
(* threads inside the wrapped function that both entered call while the    *)
(* breaker was OPEN or HALF_OPEN.                                          *)
(***************************************************************************)
Trials == {t \in BreakerThreads : callPc[t] = "func" /\ enteredIn[t] \in {"OPEN", "HALF_OPEN"}}
SingleTrial == Cardinality(Trials) <= 1

(***************************************************************************)
(* C33: whenever the Worker's blocking dequeue fails because the queue     *)
(* backend is unreachable or times out, the Worker pauses before its next  *)
(* dequeue attempt: it never issues two failing dequeue attempts back to   *)
(* back without the pause.                                                 *)
(***************************************************************************)
PausesAfterFailedPop == \A w \in Workers : failedPops[w] <= 1

(***************************************************************************)
(* C34: adaptive raise step.  After an allowed event, if at least 10       *)
(* events are retained in the window and both the current-second and the   *)
(* current-minute utilisation exceed adjustment_threshold, both ceilings   *)
(* become int(ceiling * adjustment_factor); if fewer than 10 events are    *)
(* retained, neither ceiling changes, so until then the limiter allows and *)
(* denies exactly like an ErrorRateLimiter with the same ceilings given    *)
(* the same calls.                                                         *)
(***************************************************************************)
RaiseStep ==
    /\ lastAdjust.branch = "high" <=>
          /\ lastAdjust.branch \notin {"none", "denied"}
          /\ lastAdjust.retained >= 10
          /\ Tenths * lastAdjust.second_count > adjustment_threshold * lastAdjust.s
          /\ Tenths * lastAdjust.minute_count > adjustment_threshold * lastAdjust.m
    /\ lastAdjust.branch = "high" =>
          /\ Halves * max_errors_per_second <= lastAdjust.s * adjustment_factor
          /\ lastAdjust.s * adjustment_factor < Halves * (max_errors_per_second + 1)
          /\ Halves * max_errors_per_minute <= lastAdjust.m * adjustment_factor
          /\ lastAdjust.m * adjustment_factor < Halves * (max_errors_per_minute + 1)
    /\ (lastAdjust.branch \notin {"none", "denied"} /\ lastAdjust.retained < 10) =>
          /\ max_errors_per_second = lastAdjust.s
          /\ max_errors_per_minute = lastAdjust.m
    /\ shadow.few =>
          /\ shadow.agree
          /\ max_errors_per_second = shadow.s
          /\ max_errors_per_minute = shadow.m
          /\ error_timestamps = shadow.ts
          /\ error_counts_per_second = shadow.cs
          /\ error_counts_per_minute = shadow.cm

\* the tenth retained event met both utilisations above the threshold and
\* raised both ceilings; up to it the limiter had answered like the
\* ErrorRateLimiter
RaiseStepWitness ==
    /\ lastAdjust.branch = "high"
    /\ lastAdjust.retained = 10
    /\ max_errors_per_second > lastAdjust.s
    /\ max_errors_per_minute > lastAdjust.m
    /\ shadow.agree
    /\ Len(shadow.ts) = 10

(***************************************************************************)
(* C38: an adjustment made by AdaptiveErrorRateLimiter because utilisation *)
(* is low (both usages below 0.1) never increases either ceiling; after it *)
(* each ceiling is less than or equal to its value before the adjustment.  *)
(***************************************************************************)
LowNeverRaises ==
    lastAdjust.branch = "low" =>
        /\ max_errors_per_second <= lastAdjust.s
        /\ max_errors_per_minute <= lastAdjust.m

(***************************************************************************)
(* C35: invariant of CircuitBreaker (failure_threshold >= 1).  In every    *)
(* state reachable through call from a fresh breaker, state CLOSED implies *)
(* failure_count < failure_threshold, and state OPEN implies a             *)
(* last-failure time is recorded.                                          *)
(***************************************************************************)
BreakerInvariant ==
    /\ state = "CLOSED" => failure_count < failure_threshold
    /\ state = "OPEN" => last_failure_time /= 0

\* a breaker that had opened and closed again has failed once more and is
\* one failure below its threshold
BreakerInvariantWitness ==
    /\ state = "CLOSED"
    /\ last_failure_time /= 0
    /\ failure_threshold > 1
    /\ failure_count = failure_threshold - 1
    /\ lastCall.outcome = "raised_expected"
    /\ breakerCalls > failure_threshold + 1

\* C36: once the wrapped function succeeds on every call, and calls keep
\* arriving while time advances, the breaker reaches CLOSED and from then on
\* stays CLOSED with every call passed through to the function
BreakerRecovers ==
    (healed /= "no") ~> [](state = "CLOSED" /\ lastCall.outcome = "returned")

\* a breaker that was OPEN when the function stopped failing is CLOSED again
\* after a call that returned
BreakerRecoversWitness ==
    /\ healed = "OPEN"
    /\ state = "CLOSED"
    /\ calledIn = "OPEN"
    /\ lastCall.outcome = "returned"
    /\ failure_count = 0

\* C37: whatever max_attempts is, zero and negative included, a wrapper that
\* raised has invoked the wrapped function at least once and raises an
\* exception the function raised
TriedBeforeFailing ==
    retryPc = "raised" =>
        /\ invocations >= 1
        /\ last_error /= "None"
        /\ retryRaised = last_error

\* the sum of the counts of a bucket map
RECURSIVE SumUpTo(_, _)
SumUpTo(f, n) == IF n < 0 THEN 0 ELSE f[n] + SumUpTo(f, n - 1)

\* the entries among the first k of ts that fall in bucket b under `of`
InBucket(ts, k, b, of(_)) == Cardinality({i \in 1..k : of(ts[i]) = b})

\* the per-second counts, the per-minute counts and the retained timestamps
\* account for the same entries
CountsAgree ==
    /\ SumUpTo(error_counts_per_second, SecondOf(MaxLimiterTime)) = Len(error_timestamps)
    /\ SumUpTo(error_counts_per_minute, MinuteOf(MaxLimiterTime)) = Len(error_timestamps)

\* a call that returned False dropped a prefix of expired timestamps, took
\* each of them out of its two buckets, and changed nothing else
DeniedRecordsNothing ==
    (/\ Len(limiterLog') = Len(limiterLog) + 1
     /\ ~limiterLog'[Len(limiterLog')].allowed) =>
        \E k \in 0..Len(error_timestamps) :
            /\ error_timestamps' = SubSeq(error_timestamps, k + 1, Len(error_timestamps))
            /\ \A i \in 1..k : Expired(error_timestamps[i], limiterNow)
            /\ \A x \in Seconds : error_counts_per_second'[x] =
                   error_counts_per_second[x] - InBucket(error_timestamps, k, x, SecondOf)
            /\ \A x \in Minutes : error_counts_per_minute'[x] =
                   error_counts_per_minute[x] - InBucket(error_timestamps, k, x, MinuteOf)

\* C39: an is_allowed call that returns False records nothing: apart from
\* evicting expired entries it leaves the timestamps and both bucket maps
\* unchanged; in every reachable state the per-second counts, the per-minute
\* counts and the retained timestamps add up to the same number
DenialRecordsNothing == []CountsAgree /\ [][DeniedRecordsNothing]_vars

\* with a one second window, two calls less than the window apart were
\* allowed and a third, in the second's second, was refused by the call that
\* evicted the first
DenialRecordsNothingWitness ==
    /\ Len(limiterLog) = 3
    /\ limiterLog[1].allowed /\ limiterLog[2].allowed /\ ~limiterLog[3].allowed
    /\ ~Expired(limiterLog[1].t, limiterLog[2].t)
    /\ Expired(limiterLog[1].t, limiterLog[3].t)
    /\ error_timestamps = <<limiterLog[2].t>>

\* C40: what another thread wrote with update_context is never visible
\* through get_context in a thread that has not set it itself: a thread that
\* has set or updated nothing reads an empty context, also when no thread has
\* called set_context
ContextIsolated ==
    \A t \in ContextThreads : ~has_written[t] => GetContext(t) = EmptyContext
====
